---------------------------- MODULE Spec2Model ----------------------------
(***************************************************************************)
(* A model of the Panchangam engine of murugannagaraja781/astrocalender.   *)
(*                                                                         *)
(* Numbers.  The code works on IEEE doubles; the model works on two        *)
(* integer grids.                                                          *)
(*   - An angle is an integer number of units of 1/300000 degree, so that  *)
(*     every span of the code (6, 12, 30, 360/27 and 360/108 degrees) is   *)
(*     a whole number of units and the solver tolerance of 0.001 degree    *)
(*     is 300 units.                                                       *)
(*   - A Julian Day is an integer number of seconds counted from 00:00:00  *)
(*     UTC of the request's civil date (86400 per JD day).  A midpoint     *)
(*     (low + high) / 2 is rounded down to the grid, as a double rounds    *)
(*     it to its own grid.                                                 *)
(* The Sun's and the Moon's tropical longitudes are series of sines in     *)
(* the code; over the few days a request looks at, the model replaces each *)
(* series by its tangent: a longitude at an anchor instant and a daily     *)
(* motion, both inputs, the motion drawn from the range of the series'     *)
(* derivative.                                                             *)
(***************************************************************************)
EXTENDS Integers, Sequences, FiniteSets, TLC

VARIABLES
    process,    \* the server process: its wall clock, the state initSwissEph sets up,
                \* and the responses it has sent for the request
    eph,        \* the sky: tropical longitudes at an anchor instant, motions, UTC year
    request,    \* the arguments of the operation under way
    pc,         \* the position of the operation under way
    response,   \* what the operation has returned
    trace       \* internal values of the run that the return value does not show

vars == <<process, eph, request, pc, response, trace>>

Undefined == [undefined |-> TRUE]
Null == [null |-> TRUE]

\* a process that has just started: no module of the server holds state
ProcessStarted == [now |-> 0, swisseph |-> Null, sent |-> << >>]

----------------------------------------------------------------------------
(* Units *)

UnitsPerDegree == 3 * 100000
Deg(d) == d * UnitsPerDegree
\* a decimal literal of the code given in millionths of a degree
MicroDeg(u) == (u * 3) \div 10
Circle == Deg(360)
HalfCircle == Deg(180)
DaySeconds == 24 * 3600

Abs(x) == IF x < 0 THEN -x ELSE x
\* a % b of JavaScript for b > 0: the remainder has the sign of a
Remainder(a, b) == IF a >= 0 THEN a % b ELSE -((-a) % b)
\* ((x % 360) + 360) % 360 of the code
Normalize360(x) == Remainder(Remainder(x, Circle) + Circle, Circle)
\* Math.floor(a / b) for b > 0
Floor(a, b) == a \div b

\* Array.prototype.find(x => x.index === index): the first element whose index
\* field is the given one, or undefined
FindByIndex(s, index) ==
    IF \E i \in DOMAIN s : s[i].index = index
    THEN s[CHOOSE i \in DOMAIN s :
             s[i].index = index /\ \A j \in 1..(i - 1) : s[j].index # index]
    ELSE Undefined

----------------------------------------------------------------------------
(* config/tithi.ts *)

TITHI_SPAN == Deg(12)

PAKSHA == [shukla  |-> [en |-> "Shukla Paksha"],
           krishna |-> [en |-> "Krishna Paksha"]]

TITHIS == <<
    [index |-> 1,  name |-> "Pratipada",   paksha |-> "shukla"],
    [index |-> 2,  name |-> "Dwitiya",     paksha |-> "shukla"],
    [index |-> 3,  name |-> "Tritiya",     paksha |-> "shukla"],
    [index |-> 4,  name |-> "Chaturthi",   paksha |-> "shukla"],
    [index |-> 5,  name |-> "Panchami",    paksha |-> "shukla"],
    [index |-> 6,  name |-> "Shashti",     paksha |-> "shukla"],
    [index |-> 7,  name |-> "Saptami",     paksha |-> "shukla"],
    [index |-> 8,  name |-> "Ashtami",     paksha |-> "shukla"],
    [index |-> 9,  name |-> "Navami",      paksha |-> "shukla"],
    [index |-> 10, name |-> "Dashami",     paksha |-> "shukla"],
    [index |-> 11, name |-> "Ekadashi",    paksha |-> "shukla"],
    [index |-> 12, name |-> "Dwadashi",    paksha |-> "shukla"],
    [index |-> 13, name |-> "Trayodashi",  paksha |-> "shukla"],
    [index |-> 14, name |-> "Chaturdashi", paksha |-> "shukla"],
    [index |-> 15, name |-> "Purnima",     paksha |-> "shukla"],
    [index |-> 16, name |-> "Pratipada",   paksha |-> "krishna"],
    [index |-> 17, name |-> "Dwitiya",     paksha |-> "krishna"],
    [index |-> 18, name |-> "Tritiya",     paksha |-> "krishna"],
    [index |-> 19, name |-> "Chaturthi",   paksha |-> "krishna"],
    [index |-> 20, name |-> "Panchami",    paksha |-> "krishna"],
    [index |-> 21, name |-> "Shashti",     paksha |-> "krishna"],
    [index |-> 22, name |-> "Saptami",     paksha |-> "krishna"],
    [index |-> 23, name |-> "Ashtami",     paksha |-> "krishna"],
    [index |-> 24, name |-> "Navami",      paksha |-> "krishna"],
    [index |-> 25, name |-> "Dashami",     paksha |-> "krishna"],
    [index |-> 26, name |-> "Ekadashi",    paksha |-> "krishna"],
    [index |-> 27, name |-> "Dwadashi",    paksha |-> "krishna"],
    [index |-> 28, name |-> "Trayodashi",  paksha |-> "krishna"],
    [index |-> 29, name |-> "Chaturdashi", paksha |-> "krishna"],
    [index |-> 30, name |-> "Amavasya",    paksha |-> "krishna"] >>

getTithiConfig(index) ==
    FindByIndex(TITHIS, index)

\* a variant that puts Purnima (15) in the dark fortnight
getPakshaBefore15(tithiIndex) ==
    IF tithiIndex < 15 THEN PAKSHA.shukla ELSE PAKSHA.krishna

getPaksha(tithiIndex) ==
    IF tithiIndex <= 15 THEN PAKSHA.shukla ELSE PAKSHA.krishna

----------------------------------------------------------------------------
(* config/nakshatra.ts *)

NAKSHATRA_SPAN == Deg(360) \div 27

\* startDegree is the decimal literal of the table, in millionths of a degree
NAKSHATRAS == <<
    [index |-> 1,  name |-> [en |-> "Ashwini",           ta |-> "ta:Ashwini"],           startDegree |-> 0],
    [index |-> 2,  name |-> [en |-> "Bharani",           ta |-> "ta:Bharani"],           startDegree |-> 13333333],
    [index |-> 3,  name |-> [en |-> "Krittika",          ta |-> "ta:Krittika"],          startDegree |-> 26666667],
    [index |-> 4,  name |-> [en |-> "Rohini",            ta |-> "ta:Rohini"],            startDegree |-> 40000000],
    [index |-> 5,  name |-> [en |-> "Mrigashira",        ta |-> "ta:Mrigashira"],        startDegree |-> 53333333],
    [index |-> 6,  name |-> [en |-> "Ardra",             ta |-> "ta:Ardra"],             startDegree |-> 66666667],
    [index |-> 7,  name |-> [en |-> "Punarvasu",         ta |-> "ta:Punarvasu"],         startDegree |-> 80000000],
    [index |-> 8,  name |-> [en |-> "Pushya",            ta |-> "ta:Pushya"],            startDegree |-> 93333333],
    [index |-> 9,  name |-> [en |-> "Ashlesha",          ta |-> "ta:Ashlesha"],          startDegree |-> 106666667],
    [index |-> 10, name |-> [en |-> "Magha",             ta |-> "ta:Magha"],             startDegree |-> 120000000],
    [index |-> 11, name |-> [en |-> "Purva Phalguni",    ta |-> "ta:Purva Phalguni"],    startDegree |-> 133333333],
    [index |-> 12, name |-> [en |-> "Uttara Phalguni",   ta |-> "ta:Uttara Phalguni"],   startDegree |-> 146666667],
    [index |-> 13, name |-> [en |-> "Hasta",             ta |-> "ta:Hasta"],             startDegree |-> 160000000],
    [index |-> 14, name |-> [en |-> "Chitra",            ta |-> "ta:Chitra"],            startDegree |-> 173333333],
    [index |-> 15, name |-> [en |-> "Swati",             ta |-> "ta:Swati"],             startDegree |-> 186666667],
    [index |-> 16, name |-> [en |-> "Vishakha",          ta |-> "ta:Vishakha"],          startDegree |-> 200000000],
    [index |-> 17, name |-> [en |-> "Anuradha",          ta |-> "ta:Anuradha"],          startDegree |-> 213333333],
    [index |-> 18, name |-> [en |-> "Jyeshtha",          ta |-> "ta:Jyeshtha"],          startDegree |-> 226666667],
    [index |-> 19, name |-> [en |-> "Moola",             ta |-> "ta:Moola"],             startDegree |-> 240000000],
    [index |-> 20, name |-> [en |-> "Purva Ashadha",     ta |-> "ta:Purva Ashadha"],     startDegree |-> 253333333],
    [index |-> 21, name |-> [en |-> "Uttara Ashadha",    ta |-> "ta:Uttara Ashadha"],    startDegree |-> 266666667],
    [index |-> 22, name |-> [en |-> "Shravana",          ta |-> "ta:Shravana"],          startDegree |-> 280000000],
    [index |-> 23, name |-> [en |-> "Dhanishta",         ta |-> "ta:Dhanishta"],         startDegree |-> 293333333],
    [index |-> 24, name |-> [en |-> "Shatabhisha",       ta |-> "ta:Shatabhisha"],       startDegree |-> 306666667],
    [index |-> 25, name |-> [en |-> "Purva Bhadrapada",  ta |-> "ta:Purva Bhadrapada"],  startDegree |-> 320000000],
    [index |-> 26, name |-> [en |-> "Uttara Bhadrapada", ta |-> "ta:Uttara Bhadrapada"], startDegree |-> 333333333],
    [index |-> 27, name |-> [en |-> "Revati",            ta |-> "ta:Revati"],            startDegree |-> 346666667] >>

getNakshatraIndex(moonLongitude) ==
    LET normalized == Normalize360(moonLongitude)
    IN  Floor(normalized, NAKSHATRA_SPAN) + 1

\* NAKSHATRA_SPAN = 360 / 27 is a double, the one next above 40/3: it exceeds
\* 40/3 by a third of 2^-49 degree, 4 twelfths; NAKSHATRA_SPAN / 4 is exact and
\* exceeds 10/3 by 1 twelfth.  A longitude that is a whole number of 1/32
\* degree is a double itself, and on it the code's arithmetic is the IEEE one.
SpanExcess == 4
IsDouble(x) == x % (UnitsPerDegree \div 32) = 0

\* normalized % NAKSHATRA_SPAN, which IEEE computes exactly: the remainder is
\* units less short twelfths of 2^-49 degree.  A double that is a whole number
\* of 40/3 falls short of that many NAKSHATRA_SPANs.
RemainderBySpan(normalized) ==
    LET whole == normalized \div NAKSHATRA_SPAN
        quotient == IF IsDouble(normalized) /\ normalized % NAKSHATRA_SPAN = 0 /\ whole > 0
                    THEN whole - 1 ELSE whole
    IN  [units |-> normalized - quotient * NAKSHATRA_SPAN,
         short |-> IF IsDouble(normalized) THEN quotient * SpanExcess ELSE 0]

\* the least power of two that is at least k, for k in 1..4
BinadeTop(k) == IF k = 1 THEN 1 ELSE IF k = 2 THEN 2 ELSE 4

\* Math.floor(positionInNakshatra / padaSpan).  When the position is k pada
\* spans of 10/3 less short twelfths, the quotient is k less
\* (k + short) / 40 of 2^-49, and the division rounds it to the nearest
\* double: to k when that is at most half the gap below k, which is
\* BinadeTop(k) * 2^-54, and to a double below k otherwise.
FloorInPadas(position, padaSpan) ==
    LET k == position.units \div padaSpan
    IN  IF position.units % padaSpan = 0 /\ k > 0
           /\ 4 * (k + position.short) > 5 * BinadeTop(k)
        THEN k - 1
        ELSE k

getNakshatraPada(moonLongitude) ==
    LET normalized == Normalize360(moonLongitude)
        positionInNakshatra == RemainderBySpan(normalized)
        padaSpan == NAKSHATRA_SPAN \div 4
    IN  FloorInPadas(positionInNakshatra, padaSpan) + 1

getNakshatraConfig(index) ==
    FindByIndex(NAKSHATRAS, index)

----------------------------------------------------------------------------
(* config/yoga.ts *)

YOGA_SPAN == Deg(360) \div 27

YOGAS == <<
    [index |-> 1,  name |-> "Vishkumbha", nature |-> "inauspicious"],
    [index |-> 2,  name |-> "Priti",      nature |-> "auspicious"],
    [index |-> 3,  name |-> "Ayushman",   nature |-> "auspicious"],
    [index |-> 4,  name |-> "Saubhagya",  nature |-> "auspicious"],
    [index |-> 5,  name |-> "Shobhana",   nature |-> "auspicious"],
    [index |-> 6,  name |-> "Atiganda",   nature |-> "inauspicious"],
    [index |-> 7,  name |-> "Sukarma",    nature |-> "auspicious"],
    [index |-> 8,  name |-> "Dhriti",     nature |-> "auspicious"],
    [index |-> 9,  name |-> "Shula",      nature |-> "inauspicious"],
    [index |-> 10, name |-> "Ganda",      nature |-> "inauspicious"],
    [index |-> 11, name |-> "Vriddhi",    nature |-> "auspicious"],
    [index |-> 12, name |-> "Dhruva",     nature |-> "auspicious"],
    [index |-> 13, name |-> "Vyaghata",   nature |-> "inauspicious"],
    [index |-> 14, name |-> "Harshana",   nature |-> "auspicious"],
    [index |-> 15, name |-> "Vajra",      nature |-> "inauspicious"],
    [index |-> 16, name |-> "Siddhi",     nature |-> "auspicious"],
    [index |-> 17, name |-> "Vyatipata",  nature |-> "inauspicious"],
    [index |-> 18, name |-> "Variyan",    nature |-> "auspicious"],
    [index |-> 19, name |-> "Parigha",    nature |-> "inauspicious"],
    [index |-> 20, name |-> "Shiva",      nature |-> "auspicious"],
    [index |-> 21, name |-> "Siddha",     nature |-> "auspicious"],
    [index |-> 22, name |-> "Sadhya",     nature |-> "auspicious"],
    [index |-> 23, name |-> "Shubha",     nature |-> "auspicious"],
    [index |-> 24, name |-> "Shukla",     nature |-> "auspicious"],
    [index |-> 25, name |-> "Brahma",     nature |-> "auspicious"],
    [index |-> 26, name |-> "Indra",      nature |-> "auspicious"],
    [index |-> 27, name |-> "Vaidhriti",  nature |-> "inauspicious"] >>

getYogaIndex(sunLongitude, moonLongitude) ==
    LET combined == (sunLongitude + moonLongitude) % Circle
        yogaIndex == Floor(combined, YOGA_SPAN) + 1
    IN  IF yogaIndex > 27 THEN 27 ELSE yogaIndex

getYogaConfig(index) ==
    FindByIndex(YOGAS, index)

----------------------------------------------------------------------------
(* config/karana.ts *)

KARANA_SPAN == Deg(6)

FIXED_KARANAS == <<
    [index |-> 8,  name |-> "Shakuni",     type |-> "fixed"],
    [index |-> 9,  name |-> "Chatushpada", type |-> "fixed"],
    [index |-> 10, name |-> "Naga",        type |-> "fixed"],
    [index |-> 11, name |-> "Kimstughna",  type |-> "fixed"] >>

MOVABLE_KARANAS == <<
    [index |-> 1, name |-> "Bava",    type |-> "movable"],
    [index |-> 2, name |-> "Balava",  type |-> "movable"],
    [index |-> 3, name |-> "Kaulava", type |-> "movable"],
    [index |-> 4, name |-> "Taitila", type |-> "movable"],
    [index |-> 5, name |-> "Gara",    type |-> "movable"],
    [index |-> 6, name |-> "Vanija",  type |-> "movable"],
    [index |-> 7, name |-> "Vishti",  type |-> "movable"] >>

\* a variant whose cycle starts at Bava in slot 1 instead of slot 2
getKaranaByNumberFromSlot1(karanaNumber) ==
    LET num == ((karanaNumber - 1) % 60) + 1
    IN  IF num = 1 THEN FIXED_KARANAS[3 + 1]
        ELSE IF num = 58 THEN FIXED_KARANAS[0 + 1]
        ELSE IF num = 59 THEN FIXED_KARANAS[1 + 1]
        ELSE IF num = 60 THEN FIXED_KARANAS[2 + 1]
        ELSE LET movableIndex == (num - 1) % 7
             IN  MOVABLE_KARANAS[movableIndex + 1]

\* arrays of the code are 0-based: A[i] of the code is A[i + 1] here
getKaranaByNumber(karanaNumber) ==
    LET num == ((karanaNumber - 1) % 60) + 1
    IN  IF num = 1 THEN FIXED_KARANAS[3 + 1]
        ELSE IF num = 58 THEN FIXED_KARANAS[0 + 1]
        ELSE IF num = 59 THEN FIXED_KARANAS[1 + 1]
        ELSE IF num = 60 THEN FIXED_KARANAS[2 + 1]
        ELSE LET movableIndex == (num - 2) % 7
             IN  MOVABLE_KARANAS[movableIndex + 1]

getKaranaFromPositions(sunLongitude, moonLongitude) ==
    LET d == moonLongitude - sunLongitude
        elongation == IF d < 0 THEN d + Circle ELSE d
        karanaNumber == Floor(elongation, KARANA_SPAN) + 1
    IN  getKaranaByNumber(IF karanaNumber > 60 THEN 60 ELSE karanaNumber)

----------------------------------------------------------------------------
(* config/rasi.ts *)

RASI_SPAN == Deg(30)

\* startDegree in degrees, as in the table
RASIS == <<
    [index |-> 1,  name |-> "Mesha",     startDegree |-> 0],
    [index |-> 2,  name |-> "Vrishabha", startDegree |-> 30],
    [index |-> 3,  name |-> "Mithuna",   startDegree |-> 60],
    [index |-> 4,  name |-> "Karka",     startDegree |-> 90],
    [index |-> 5,  name |-> "Simha",     startDegree |-> 120],
    [index |-> 6,  name |-> "Kanya",     startDegree |-> 150],
    [index |-> 7,  name |-> "Tula",      startDegree |-> 180],
    [index |-> 8,  name |-> "Vrischika", startDegree |-> 210],
    [index |-> 9,  name |-> "Dhanu",     startDegree |-> 240],
    [index |-> 10, name |-> "Makara",    startDegree |-> 270],
    [index |-> 11, name |-> "Kumbha",    startDegree |-> 300],
    [index |-> 12, name |-> "Meena",     startDegree |-> 330] >>

\* a variant that forgets the table is 1-based
getRasiIndexZeroBased(longitude) ==
    LET normalized == Normalize360(longitude)
    IN  Floor(normalized, RASI_SPAN)

getRasiIndex(longitude) ==
    LET normalized == Normalize360(longitude)
    IN  Floor(normalized, RASI_SPAN) + 1

getDegreeInRasi(longitude) ==
    LET normalized == Normalize360(longitude)
    IN  normalized % RASI_SPAN

getRasiConfig(index) ==
    FindByIndex(RASIS, index)

----------------------------------------------------------------------------
(* utils/datetime.ts *)

\* the zone data Luxon consults: offset from UTC in seconds (no DST change
\* inside the days looked at)
Zones == {"UTC", "Asia/Kolkata", "America/Los_Angeles"}

UtcOffset(timezone) ==
    CASE timezone = "UTC" -> 0
      [] timezone = "Asia/Kolkata" -> 5 * 3600 + 30 * 60
      [] timezone = "America/Los_Angeles" -> -(8 * 3600)

\* a Luxon DateTime: an instant in milliseconds and the zone it is shown in.
\* The JD of the model is in seconds from the model's epoch, so
\* (jd - 2440587.5) * 86400000 is jd * 1000.
julianDayToDateTime(jd, timezone) == [ts |-> jd * 1000, zone |-> timezone]

LocalSeconds(dt) == (dt.ts \div 1000) + UtcOffset(dt.zone)

\* a variant that keeps Luxon's numbering, in which Sunday is 7
getDayOfWeekLuxon(date, timezone) == date.weekday

\* a civil date as createDateTime reads it: Luxon's weekday is 1 (Monday) to 7
\* (Sunday)
getDayOfWeek(date, timezone) == date.weekday % 7

\* toFormat('HH:mm:ss'): the clock fields of the local time, nothing rounded
formatTime(dt) ==
    LET s == LocalSeconds(dt)
    IN  <<(s \div 3600) % 24, (s \div 60) % 60, s % 60>>

\* toFormat('HH:mm')
formatTimeShort(dt) ==
    LET s == LocalSeconds(dt)
    IN  <<(s \div 3600) % 24, (s \div 60) % 60>>

----------------------------------------------------------------------------
(* engine/swisseph.ts *)

AYANAMSA_2000 == MicroDeg(23853060)

\* AYANAMSA_RATE = 50.3 / 3600 degree per year = 503 * 300000 / 36000 units
getAyanamsa(year) ==
    LET yearsSince2000 == year - 2000
    IN  AYANAMSA_2000 + (yearsSince2000 * 12575) \div 3

\* a variant that takes the remainder once
tropicalToSiderealRemainder(tropicalLongitude, year) ==
    LET ayanamsa == getAyanamsa(year)
        sidereal == tropicalLongitude - ayanamsa
    IN  Remainder(sidereal, Circle)

tropicalToSidereal(tropicalLongitude, year) ==
    LET ayanamsa == getAyanamsa(year)
        sidereal == tropicalLongitude - ayanamsa
    IN  Normalize360(sidereal)

\* julianDayToDate(jd).getUTCFullYear(): eph.newYear is the JD of the next
\* 1 January 00:00:00 UTC
UTCFullYear(jd) == IF jd >= eph.newYear THEN eph.year + 1 ELSE eph.year

\* The Moon's series has mean motion 13.18 deg/day and its sine terms add at
\* most 2.12 deg/day either way: 38.4 to 53.1 units per second.  The Sun's has
\* 0.9856 deg/day and at most 0.034 deg/day either way: 33.1 to 35.4 units per
\* 10 seconds.
MinMoonMotion == 39
MaxMoonMotion == 53
MinSunMotion == 34
MaxSunMotion == 35

getSunTropicalLongitude(jd) ==
    (eph.sunTrop + (eph.sunMotion * (jd - eph.at)) \div 10) % Circle

getMoonTropicalLongitude(jd) ==
    (eph.moonTrop + eph.moonMotion * (jd - eph.at)) % Circle

getSunLongitude(jd) ==
    tropicalToSidereal(getSunTropicalLongitude(jd), UTCFullYear(jd))

getMoonLongitude(jd) ==
    tropicalToSidereal(getMoonTropicalLongitude(jd), UTCFullYear(jd))

getSunMoonPositions(jd) ==
    [sun |-> getSunLongitude(jd), moon |-> getMoonLongitude(jd)]

----------------------------------------------------------------------------
(* The angle functions handed to the solver.  The code passes closures; the  *)
(* model passes the closure's name and applies it here.                      *)

\* engine/tithi.ts
getMoonSunElongation(sunLongitude, moonLongitude) ==
    LET elongation == moonLongitude - sunLongitude
    IN  IF elongation < 0 THEN elongation + Circle ELSE elongation

getTithiIndexFromElongation(elongation) ==
    LET index == Floor(elongation, TITHI_SPAN) + 1
    IN  IF index > 30 THEN 30 ELSE index

getElongation(jd) ==
    LET p == getSunMoonPositions(jd)
    IN  getMoonSunElongation(p.sun, p.moon)

\* engine/karana.ts has its own copy
getElongationKarana(jd) ==
    LET p == getSunMoonPositions(jd)
        elongation == p.moon - p.sun
    IN  IF elongation < 0 THEN elongation + Circle ELSE elongation

getKaranaNumber(elongation) == Floor(elongation, KARANA_SPAN) + 1

\* engine/yoga.ts
getCombinedLongitude(sunLongitude, moonLongitude) ==
    (sunLongitude + moonLongitude) % Circle

getCombinedAtJD(jd) ==
    LET p == getSunMoonPositions(jd)
    IN  getCombinedLongitude(p.sun, p.moon)

Apply(getAngle, jd) ==
    CASE getAngle = "tithi.getElongation"  -> getElongation(jd)
      [] getAngle = "karana.getElongation" -> getElongationKarana(jd)
      [] getAngle = "getCombinedAtJD"      -> getCombinedAtJD(jd)
      [] getAngle = "getMoonLongitude"     -> getMoonLongitude(jd)
      [] getAngle = "request.getAngle"     -> request.getAngle[jd]

----------------------------------------------------------------------------
(* engine/swisseph.ts: the crossing solver *)

maxIterations == 50

\* diff = a - target; if (diff > 180) diff -= 360; if (diff < -180) diff += 360
WrapDiff(d) ==
    LET d1 == IF d > HalfCircle THEN d - Circle ELSE d
    IN  IF d1 < -HalfCircle THEN d1 + Circle ELSE d1

\* lowDiff * diff < 0, without forming the product
OppositeSigns(lowDiff, diff) ==
    (lowDiff < 0 /\ diff > 0) \/ (lowDiff > 0 /\ diff < 0)

RECURSIVE Bisect(_, _, _, _, _, _)
Bisect(i, low, high, targetAngle, getAngle, tolerance) ==
    IF i >= maxIterations
    THEN (low + high) \div 2
    ELSE LET mid == (low + high) \div 2
             diff == WrapDiff(Apply(getAngle, mid) - targetAngle)
             lowDiff == WrapDiff(Apply(getAngle, low) - targetAngle)
         IN  IF Abs(diff) < tolerance THEN mid
             ELSE IF OppositeSigns(lowDiff, diff)
                  THEN Bisect(i + 1, low, mid, targetAngle, getAngle, tolerance)
                  ELSE Bisect(i + 1, mid, high, targetAngle, getAngle, tolerance)

\* The same loop, one iteration at a time.  loop holds i, low and high and,
\* beside them, the midpoints tried and the brackets kept so far.
LoopStart(startJD, endJD) ==
    [i |-> 0, low |-> startJD, high |-> endJD, mids |-> << >>,
     brackets |-> << [low |-> startJD, high |-> endJD] >>]

\* a variant that keeps the other half
LoopBodyOtherHalf(loop, targetAngle, getAngle, tolerance) ==
    LET mid == (loop.low + loop.high) \div 2
        diff == WrapDiff(Apply(getAngle, mid) - targetAngle)
        lowDiff == WrapDiff(Apply(getAngle, loop.low) - targetAngle)
        kept == IF OppositeSigns(lowDiff, diff)
                THEN [low |-> mid, high |-> loop.high]
                ELSE [low |-> loop.low, high |-> mid]
    IN  IF Abs(diff) < tolerance
        THEN [returned |-> mid, mids |-> Append(loop.mids, mid)]
        ELSE [i |-> loop.i + 1, low |-> kept.low, high |-> kept.high,
              mids |-> Append(loop.mids, mid),
              brackets |-> Append(loop.brackets, kept)]

LoopBody(loop, targetAngle, getAngle, tolerance) ==
    LET mid == (loop.low + loop.high) \div 2
        diff == WrapDiff(Apply(getAngle, mid) - targetAngle)
        lowDiff == WrapDiff(Apply(getAngle, loop.low) - targetAngle)
        kept == IF OppositeSigns(lowDiff, diff)
                THEN [low |-> loop.low, high |-> mid]
                ELSE [low |-> mid, high |-> loop.high]
    IN  IF Abs(diff) < tolerance
        THEN [returned |-> mid, mids |-> Append(loop.mids, mid)]
        ELSE [i |-> loop.i + 1, low |-> kept.low, high |-> kept.high,
              mids |-> Append(loop.mids, mid),
              brackets |-> Append(loop.brackets, kept)]

\* a variant that gives up with an error when the iterations run out
LoopStepOrThrow(loop, targetAngle, getAngle, tolerance) ==
    IF loop.i < maxIterations
    THEN LoopBody(loop, targetAngle, getAngle, tolerance)
    ELSE [threw |-> "No crossing found", mids |-> loop.mids]

LoopStep(loop, targetAngle, getAngle, tolerance) ==
    IF loop.i < maxIterations
    THEN LoopBody(loop, targetAngle, getAngle, tolerance)
    ELSE [returned |-> (loop.low + loop.high) \div 2, mids |-> loop.mids]

\* a variant that stops ten times further from the target
findAngleCrossingLoose(startJD, endJD, targetAngle, getAngle, tolerance) ==
    Bisect(0, startJD, endJD, targetAngle, getAngle, 10 * tolerance)

findAngleCrossing(startJD, endJD, targetAngle, getAngle, tolerance) ==
    Bisect(0, startJD, endJD, targetAngle, getAngle, tolerance)

\* 0.001 degree and 0.01 degree
Tolerance001 == Deg(1) \div 1000
Tolerance01 == Deg(1) \div 100

----------------------------------------------------------------------------
(* The limb engines.  Each returns the record the code returns (info) and,   *)
(* beside it, the end JD the solver gave, which the code formats and drops.  *)

Unknown == "Unknown"

\* engine/tithi.ts
findTithiEndTime(currentJD, currentTithiIndex, timezone) ==
    LET nextTithiElongation == (currentTithiIndex * TITHI_SPAN) % Circle
        searchEndJD == currentJD + 2 * DaySeconds
    IN  findAngleCrossing(currentJD, searchEndJD, nextTithiElongation,
                          "tithi.getElongation", Tolerance001)

calculateTithi(julianDay, timezone) ==
    LET p == getSunMoonPositions(julianDay)
        elongation == getMoonSunElongation(p.sun, p.moon)
        tithiIndex == getTithiIndexFromElongation(elongation)
        tithiConfig == getTithiConfig(tithiIndex)
        endJD == findTithiEndTime(julianDay, tithiIndex, timezone)
        endDateTime == julianDayToDateTime(endJD, timezone)
        nextTithiIndex == IF tithiIndex >= 30 THEN 1 ELSE tithiIndex + 1
        nextTithiConfig == getTithiConfig(nextTithiIndex)
        paksha == getPaksha(tithiIndex)
    IN  IF tithiConfig = Undefined
        THEN [threw |-> "Invalid tithi index", index |-> tithiIndex]
        ELSE [info |-> [index |-> tithiIndex,
                        name |-> tithiConfig.name,
                        paksha |-> paksha,
                        endTime |-> formatTime(endDateTime),
                        nextTithi |-> IF nextTithiConfig = Undefined
                                      THEN Unknown ELSE nextTithiConfig.name],
              endJD |-> endJD]

\* engine/nakshatra.ts
findNakshatraEndTime(currentJD, currentNakshatraIndex) ==
    LET nextNakshatraStart == (currentNakshatraIndex * NAKSHATRA_SPAN) % Circle
        searchEndJD == currentJD + 2 * DaySeconds
    IN  findAngleCrossing(currentJD, searchEndJD, nextNakshatraStart,
                          "getMoonLongitude", Tolerance001)

calculateNakshatra(julianDay, timezone) ==
    LET moonLongitude == getMoonLongitude(julianDay)
        nakshatraIndex == getNakshatraIndex(moonLongitude)
        pada == getNakshatraPada(moonLongitude)
        nakshatraConfig == getNakshatraConfig(nakshatraIndex)
        endJD == findNakshatraEndTime(julianDay, nakshatraIndex)
        endDateTime == julianDayToDateTime(endJD, timezone)
        nextNakshatraIndex == IF nakshatraIndex >= 27 THEN 1 ELSE nakshatraIndex + 1
        nextNakshatraConfig == getNakshatraConfig(nextNakshatraIndex)
    IN  IF nakshatraConfig = Undefined
        THEN [threw |-> "Invalid nakshatra index", index |-> nakshatraIndex]
        ELSE [info |-> [index |-> nakshatraIndex,
                        name |-> nakshatraConfig.name,
                        pada |-> pada,
                        endTime |-> formatTime(endDateTime),
                        nextNakshatra |-> IF nextNakshatraConfig = Undefined
                                          THEN Unknown ELSE nextNakshatraConfig.name],
              endJD |-> endJD]

\* engine/yoga.ts
findYogaEndTime(currentJD, currentYogaIndex) ==
    LET nextYogaStart == (currentYogaIndex * YOGA_SPAN) % Circle
        searchEndJD == currentJD + 2 * DaySeconds
    IN  findAngleCrossing(currentJD, searchEndJD, nextYogaStart,
                          "getCombinedAtJD", Tolerance001)

calculateYoga(julianDay, timezone) ==
    LET p == getSunMoonPositions(julianDay)
        yogaIndex == getYogaIndex(p.sun, p.moon)
        yogaConfig == getYogaConfig(yogaIndex)
        endJD == findYogaEndTime(julianDay, yogaIndex)
        endDateTime == julianDayToDateTime(endJD, timezone)
    IN  IF yogaConfig = Undefined
        THEN [threw |-> "Invalid yoga index", index |-> yogaIndex]
        ELSE [info |-> [index |-> yogaIndex,
                        name |-> yogaConfig.name,
                        endTime |-> formatTime(endDateTime)],
              endJD |-> endJD]

\* engine/karana.ts
findKaranaEndTime(currentJD, currentKaranaNumber) ==
    LET nextKaranaElongation == (currentKaranaNumber * KARANA_SPAN) % Circle
        searchEndJD == currentJD + 1 * DaySeconds
    IN  findAngleCrossing(currentJD, searchEndJD, nextKaranaElongation,
                          "karana.getElongation", Tolerance001)

calculateKarana(julianDay, timezone) ==
    LET p == getSunMoonPositions(julianDay)
        karanaConfig == getKaranaFromPositions(p.sun, p.moon)
        elongation == getElongationKarana(julianDay)
        karanaNumber == getKaranaNumber(elongation)
        endJD == findKaranaEndTime(julianDay, karanaNumber)
        endDateTime == julianDayToDateTime(endJD, timezone)
        nextKaranaNumber == IF karanaNumber >= 60 THEN 1 ELSE karanaNumber + 1
        nextKaranaConfig == getKaranaByNumber(nextKaranaNumber)
    IN  [info |-> [index |-> karanaConfig.index,
                   name |-> karanaConfig.name,
                   endTime |-> formatTime(endDateTime),
                   nextKarana |-> nextKaranaConfig.name],
         endJD |-> endJD,
         karanaNumber |-> karanaNumber,
         karanaConfig |-> karanaConfig]

\* engine/moonRasi.ts; degree is rounded to 3 decimals: 300 units
calculateMoonRasi(julianDay) ==
    LET moonLongitude == getMoonLongitude(julianDay)
        rasiIndex == getRasiIndex(moonLongitude)
        degreeInRasi == getDegreeInRasi(moonLongitude)
        rasiConfig == getRasiConfig(rasiIndex)
    IN  IF rasiConfig = Undefined
        THEN [threw |-> "Invalid rasi index", index |-> rasiIndex]
        ELSE [info |-> [index |-> rasiIndex,
                        name |-> rasiConfig.name,
                        degree |-> ((degreeInRasi + 150) \div 300) * 300]]

----------------------------------------------------------------------------
(* Specification SpecLimb: one limb engine called at a reference JD under a  *)
(* sky whose sidereal longitudes at that JD are drawn from every karana and  *)
(* every pada boundary and the points next to them.                          *)

MaxOffset == 1

Boundaries ==
    {k * KARANA_SPAN : k \in 0..59} \cup {k * (NAKSHATRA_SPAN \div 4) : k \in 0..107}

Offsets == (-MaxOffset)..MaxOffset

MoonSamples == {(b + d) % Circle : b \in Boundaries, d \in Offsets}

SunSamples == {0, Deg(100) + 7}

\* the sky with the given sidereal longitudes at instant at
Sky(at, sunSidereal, moonSidereal, sunMotion, moonMotion, year, newYear) ==
    [at |-> at,
     sunTrop |-> (sunSidereal + getAyanamsa(year)) % Circle,
     moonTrop |-> (moonSidereal + getAyanamsa(year)) % Circle,
     sunMotion |-> sunMotion,
     moonMotion |-> moonMotion,
     year |-> year,
     newYear |-> newYear]

\* the next 1 January: far away, or five hours after the reference instant
NewYears(at) == {at + 400 * DaySeconds, at + 5 * 3600}

InitLimb ==
    /\ request = [julianDay |-> 6 * 3600 + 17, timezone |-> "Asia/Kolkata"]
    /\ \E sun \in SunSamples, moon \in MoonSamples,
          sunMotion \in {MinSunMotion, MaxSunMotion},
          moonMotion \in {MinMoonMotion, MaxMoonMotion},
          newYear \in NewYears(request.julianDay) :
            eph = Sky(request.julianDay, sun, moon, sunMotion, moonMotion, 2024, newYear)
    /\ pc = "ready"
    /\ response = Null
    /\ trace = Null
    /\ process = ProcessStarted

\* what a limb call leaves behind: the record returned or the error thrown,
\* and the values the engine computed on the way
Returned(r) == IF "threw" \in DOMAIN r THEN [error |-> r.threw] ELSE r.info
Internal(r) ==
    [x \in (DOMAIN r) \ {"info"} |-> r[x]] @@ [refJD |-> request.julianDay]

CalculateTithi ==
    /\ pc = "ready"
    /\ \E r \in {calculateTithi(request.julianDay, request.timezone)} :
          response' = Returned(r) /\ trace' = Internal(r)
    /\ pc' = "tithi"
    /\ UNCHANGED <<process, eph, request>>

CalculateNakshatra ==
    /\ pc = "ready"
    /\ \E r \in {calculateNakshatra(request.julianDay, request.timezone)} :
          response' = Returned(r) /\ trace' = Internal(r)
    /\ pc' = "nakshatra"
    /\ UNCHANGED <<process, eph, request>>

CalculateYoga ==
    /\ pc = "ready"
    /\ \E r \in {calculateYoga(request.julianDay, request.timezone)} :
          response' = Returned(r) /\ trace' = Internal(r)
    /\ pc' = "yoga"
    /\ UNCHANGED <<process, eph, request>>

CalculateKarana ==
    /\ pc = "ready"
    /\ \E r \in {calculateKarana(request.julianDay, request.timezone)} :
          response' = Returned(r) /\ trace' = Internal(r)
    /\ pc' = "karana"
    /\ UNCHANGED <<process, eph, request>>

CalculateMoonRasi ==
    /\ pc = "ready"
    /\ \E r \in {calculateMoonRasi(request.julianDay)} :
          response' = Returned(r) /\ trace' = Internal(r)
    /\ pc' = "moonRasi"
    /\ UNCHANGED <<process, eph, request>>

NextLimb ==
    \/ CalculateTithi
    \/ CalculateNakshatra
    \/ CalculateYoga
    \/ CalculateKarana
    \/ CalculateMoonRasi

SpecLimb == InitLimb /\ [][NextLimb]_vars

----------------------------------------------------------------------------
(* Properties of the limb engines (checked under SpecLimb) *)

LimbStates == {"tithi", "nakshatra", "yoga", "karana"}

\* the angle a limb follows, its span and its search window
LimbAngle(limb) ==
    CASE limb = "tithi"     -> "tithi.getElongation"
      [] limb = "nakshatra" -> "getMoonLongitude"
      [] limb = "yoga"      -> "getCombinedAtJD"
      [] limb = "karana"    -> "karana.getElongation"

LimbSpan(limb) ==
    CASE limb = "tithi"     -> Deg(12)
      [] limb = "nakshatra" -> Deg(360) \div 27
      [] limb = "yoga"      -> Deg(360) \div 27
      [] limb = "karana"    -> Deg(6)

LimbWindow(limb) == IF limb = "karana" THEN 1 * DaySeconds ELSE 2 * DaySeconds

\* the index whose multiple of the span is the next boundary: the index of the
\* record, and for karana the half-tithi slot
LimbIndex == IF pc = "karana" THEN trace.karanaNumber ELSE response.index

NextBoundary == (LimbIndex * LimbSpan(pc)) % Circle

\* Between two changes of the UTC year every longitude of the sky is its
\* tropical longitude minus a constant, and advances; the only instant of the
\* window at which an angle can step back is the new year, where the ayanamsa
\* grows.
NonDecreasingInWindow ==
    LET lo == trace.refJD
        hi == lo + LimbWindow(pc)
    IN  (eph.newYear \in (lo + 1)..hi) =>
            WrapDiff(Apply(LimbAngle(pc), eph.newYear)
                       - Apply(LimbAngle(pc), eph.newYear - 1)) >= 0

\* the angle travels, from the reference instant to the end of the window, at
\* least the distance that separates it from the next boundary
ReachesBoundaryInWindow ==
    LET lo == trace.refJD
        hi == lo + LimbWindow(pc)
        toBoundary == (NextBoundary - Apply(LimbAngle(pc), lo)) % Circle
        travelled == (Apply(LimbAngle(pc), hi) - Apply(LimbAngle(pc), lo)) % Circle
    IN  toBoundary <= travelled

LimbPremise ==
    /\ pc \in LimbStates
    /\ "error" \notin DOMAIN response
    /\ NonDecreasingInWindow
    /\ ReachesBoundaryInWindow

\* C1: whenever a limb's angle is non-decreasing and reaches the next boundary
\* (index * span mod 360) inside the search window (2 days for tithi,
\* nakshatra and yoga, 1 day for karana), the end time computed satisfies
\* refJD < endJD <= refJD + window and the angle at endJD is within 0.001
\* degree of that boundary.
C1_LimbEndTime ==
    LimbPremise =>
        /\ trace.refJD < trace.endJD
        /\ trace.endJD <= trace.refJD + LimbWindow(pc)
        /\ Abs(WrapDiff(Apply(LimbAngle(pc), trace.endJD) - NextBoundary))
             < Deg(1) \div 1000

\* a yoga that ends on the second day of its window, the new year falling
\* inside the window of a tithi
C1_Witness ==
    /\ LimbPremise
    /\ \/ pc = "yoga" /\ trace.endJD > trace.refJD + DaySeconds
       \/ pc = "tithi" /\ eph.newYear \in trace.refJD..trace.endJD

\* the table of the 60 half-tithi slots
SlotKarana(n) ==
    IF n = 1 THEN [name |-> "Kimstughna", type |-> "fixed"]
    ELSE IF n = 58 THEN [name |-> "Shakuni", type |-> "fixed"]
    ELSE IF n = 59 THEN [name |-> "Chatushpada", type |-> "fixed"]
    ELSE IF n = 60 THEN [name |-> "Naga", type |-> "fixed"]
    ELSE [name |-> <<"Bava", "Balava", "Kaulava", "Taitila",
                     "Gara", "Vanija", "Vishti">>[((n - 2) % 7) + 1],
          type |-> "movable"]

\* C2: for every half-tithi slot n in 1..60 the karana is Kimstughna (fixed)
\* for n = 1, Shakuni, Chatushpada, Naga (fixed) for n = 58, 59, 60, and for n
\* in 2..57 the movable karana at position (n - 2) mod 7 of the cycle Bava,
\* Balava, Kaulava, Taitila, Gara, Vanija, Vishti, both for the slot of the
\* reference instant and for the slot that follows it.
C2_KaranaSlots ==
    pc = "karana" =>
        LET n == trace.karanaNumber
            next == IF n >= 60 THEN 1 ELSE n + 1
        IN  /\ n \in 1..60
            /\ trace.karanaConfig.name = SlotKarana(n).name
            /\ trace.karanaConfig.type = SlotKarana(n).type
            /\ response.name = SlotKarana(n).name
            /\ response.nextKarana = SlotKarana(next).name

\* the last movable slot, followed by the first fixed one
C2_Witness ==
    /\ pc = "karana"
    /\ trace.karanaNumber = 57
    /\ response.name = "Vishti"
    /\ response.nextKarana = "Shakuni"

\* C3: for every Sun and Moon longitude in [0, 360) the tithi index is in
\* 1..30, the nakshatra index in 1..27, the yoga index in 1..27, the karana
\* index in 1..11 and the rasi index in 1..12, and no lookup of a limb's name
\* fails.
C3_IndexRanges ==
    pc \in LimbStates \cup {"moonRasi"} =>
        /\ "error" \notin DOMAIN response
        /\ pc = "tithi" => response.index \in 1..30
        /\ pc = "nakshatra" => response.index \in 1..27
        /\ pc = "yoga" => response.index \in 1..27
        /\ pc = "karana" => response.index \in 1..11
        /\ pc = "moonRasi" => response.index \in 1..12

\* the Moon one unit short of a full circle: the last rasi
C3_Witness ==
    /\ pc = "moonRasi"
    /\ getMoonLongitude(request.julianDay) = Circle - 1
    /\ response.index = 12

\* C4: in every tithi record the paksha is Shukla iff the index is at most 15,
\* Krishna iff it is in 16..30, and it is the paksha of the TITHIS entry of
\* that index.
C4_PakshaConsistent ==
    pc = "tithi" =>
        /\ response.paksha = PAKSHA.shukla <=> response.index <= 15
        /\ response.paksha = PAKSHA.krishna <=> response.index \in 16..30
        /\ \E i \in DOMAIN TITHIS :
              /\ TITHIS[i].index = response.index
              /\ response.paksha = PAKSHA[TITHIS[i].paksha]

\* Purnima, the last tithi of the bright fortnight
C4_Witness ==
    /\ pc = "tithi"
    /\ response.index = 15
    /\ response.paksha = PAKSHA.shukla

----------------------------------------------------------------------------
(* engine/muhurta.ts *)

\* keyed by day of week, Sunday = 0
RAHU_KALAM_SEGMENTS == [d \in 0..6 |-> <<8, 2, 7, 5, 6, 4, 3>>[d + 1]]
YAMA_GANDAM_SEGMENTS == [d \in 0..6 |-> <<5, 4, 3, 2, 1, 7, 6>>[d + 1]]
KULIGAI_SEGMENTS == [d \in 0..6 |-> <<7, 6, 5, 4, 3, 2, 1>>[d + 1]]

\* a variant with the same good segments on every day of the week
GOWRI_GOOD_SEGMENTS_EveryDay == [d \in 0..6 |-> <<1, 2, 5, 6>>]

GOWRI_GOOD_SEGMENTS ==
    [d \in 0..6 |-> IF d % 2 = 0 THEN <<1, 2, 5, 6>> ELSE <<3, 4, 7, 8>>]

GOWRI_NAMES ==
    <<"Uthira", "Chandra", "Sani", "Budha", "Guru", "Ravi", "Sukra", "Kuja">>

\* table[key] ?? fallback
Lookup(table, key, fallback) ==
    IF key \in DOMAIN table THEN table[key] ELSE fallback

\* a variant that rounds the segment down to whole minutes
getTimeSegmentWholeMinutes(sunriseTime, sunsetTime, segment) ==
    LET dayDuration == sunsetTime.ts - sunriseTime.ts
        segmentDuration == ((dayDuration \div 8) \div 60000) * 60000
        startTime == [sunriseTime EXCEPT !.ts = @ + segmentDuration * (segment - 1)]
        endTime == [sunriseTime EXCEPT !.ts = @ + segmentDuration * segment]
    IN  [start |-> formatTimeShort(startTime),
         end |-> formatTimeShort(endTime)]

\* Sunrise and sunset are whole seconds, so an eighth of the day is a whole
\* number of milliseconds.
getTimeSegment(sunriseTime, sunsetTime, segment) ==
    LET dayDuration == sunsetTime.ts - sunriseTime.ts
        segmentDuration == dayDuration \div 8
        startMs == segmentDuration * (segment - 1)
        endMs == segmentDuration * segment
        startTime == [sunriseTime EXCEPT !.ts = @ + startMs]
        endTime == [sunriseTime EXCEPT !.ts = @ + endMs]
    IN  [start |-> formatTimeShort(startTime),
         end |-> formatTimeShort(endTime)]

calculateInauspiciousPeriods(sunriseJD, sunsetJD, date, timezone) ==
    LET sunriseTime == julianDayToDateTime(sunriseJD, timezone)
        sunsetTime == julianDayToDateTime(sunsetJD, timezone)
        dayOfWeek == getDayOfWeek(date, timezone)
        rahuKalam == getTimeSegment(sunriseTime, sunsetTime,
                                    Lookup(RAHU_KALAM_SEGMENTS, dayOfWeek, 1))
        yamaGandam == getTimeSegment(sunriseTime, sunsetTime,
                                     Lookup(YAMA_GANDAM_SEGMENTS, dayOfWeek, 1))
        kuligai == getTimeSegment(sunriseTime, sunsetTime,
                                  Lookup(KULIGAI_SEGMENTS, dayOfWeek, 1))
    IN  [rahuKalam |-> rahuKalam,
         yamaGandam |-> yamaGandam,
         kuligai |-> kuligai]

\* Array.prototype.filter on a sequence of at most 8 elements
RECURSIVE FilterGood(_)
FilterGood(s) ==
    IF s = << >> THEN << >>
    ELSE IF Head(s).type = "good"
         THEN <<[start |-> Head(s).start, end |-> Head(s).end]>> \o FilterGood(Tail(s))
         ELSE FilterGood(Tail(s))

calculateAuspiciousPeriods(sunriseJD, sunsetJD, date, timezone) ==
    LET sunriseTime == julianDayToDateTime(sunriseJD, timezone)
        sunsetTime == julianDayToDateTime(sunsetJD, timezone)
        dayOfWeek == getDayOfWeek(date, timezone)
        goodSegments == Lookup(GOWRI_GOOD_SEGMENTS, dayOfWeek, << >>)
        gowriNeram ==
            [segment \in 1..8 |->
                LET period == getTimeSegment(sunriseTime, sunsetTime, segment)
                    isGood == \E i \in DOMAIN goodSegments : goodSegments[i] = segment
                    nameIndex == (segment - 1 + dayOfWeek) % 8
                IN  [start |-> period.start,
                     end |-> period.end,
                     type |-> IF isGood THEN "good" ELSE "bad",
                     name |-> GOWRI_NAMES[nameIndex + 1]]]
        nallaNeram == FilterGood(gowriNeram)
    IN  [gowriNeram |-> gowriNeram, nallaNeram |-> nallaNeram]

----------------------------------------------------------------------------
(* Specification SpecMuhurta: the day-segment calculators called with a      *)
(* sunrise near 06:00 local time and a day of twelve hours and a little.     *)

MaxSkew == 2

NoSky == [at |-> 0, sunTrop |-> 0, moonTrop |-> 0, sunMotion |-> MinSunMotion,
          moonMotion |-> MinMoonMotion, year |-> 2024, newYear |-> 400 * DaySeconds]

\* local clock times of sunrise, in seconds, and lengths of the day
SunriseClocks == {6 * 3600 + 59 * k : k \in 0..MaxSkew}
DayLengths == {12 * 3600 + 60 * j + i : j \in 0..MaxSkew, i \in 0..MaxSkew}

InitMuhurta ==
    /\ \E timezone \in Zones, clock \in SunriseClocks, length \in DayLengths,
          weekday \in 1..7 :
            request = [sunriseJD |-> clock - UtcOffset(timezone),
                       sunsetJD |-> clock - UtcOffset(timezone) + length,
                       date |-> [weekday |-> weekday],
                       timezone |-> timezone]
    /\ eph = NoSky
    /\ pc = "ready"
    /\ response = Null
    /\ trace = Null
    /\ process = ProcessStarted

CalculateInauspiciousPeriods ==
    /\ pc = "ready"
    /\ response' = calculateInauspiciousPeriods(request.sunriseJD, request.sunsetJD,
                                                request.date, request.timezone)
    /\ trace' = Null
    /\ pc' = "inauspicious"
    /\ UNCHANGED <<process, eph, request>>

CalculateAuspiciousPeriods ==
    /\ pc = "ready"
    /\ response' = calculateAuspiciousPeriods(request.sunriseJD, request.sunsetJD,
                                              request.date, request.timezone)
    /\ trace' = Null
    /\ pc' = "auspicious"
    /\ UNCHANGED <<process, eph, request>>

NextMuhurta ==
    \/ CalculateInauspiciousPeriods
    \/ CalculateAuspiciousPeriods

SpecMuhurta == InitMuhurta /\ [][NextMuhurta]_vars

\* the clock reading <<hours, minutes>> as minutes of the day, and the length
\* in minutes of a period read off its two clock readings
MinuteOfDay(hm) == hm[1] * 60 + hm[2]
PeriodMinutes(period) == (MinuteOfDay(period.end) - MinuteOfDay(period.start)) % (24 * 60)

\* the local clock reading, cut to the minute, of the instant k eighths of the
\* day after sunrise
EighthClock(k) ==
    LET localSunriseMs == (request.sunriseJD + UtcOffset(request.timezone)) * 1000
        dayMs == (request.sunsetJD - request.sunriseJD) * 1000
        minute == ((localSunriseMs + (k * dayMs) \div 8) \div 60000) % (24 * 60)
    IN  <<minute \div 60, minute % 60>>

\* C5 (as amended): the 8 Gowri segments are returned as local clock times cut
\* to the minute: segment k starts at the reading of sunrise + (k - 1) eighths
\* of the day and ends at the reading of sunrise + k eighths, so segment 1
\* starts at the minute of sunrise, segment 8 ends at the minute of sunset,
\* every segment k in 1..7 ends at the reading at which segment k + 1 starts,
\* and the lengths read off the clock times differ by at most one minute.
C5_GowriTilingToTheMinute ==
    pc = "auspicious" =>
        LET g == response.gowriNeram
        IN  /\ Len(g) = 8
            /\ \A k \in 1..8 : g[k].start = EighthClock(k - 1) /\ g[k].end = EighthClock(k)
            /\ \A k \in 1..7 : g[k].end = g[k + 1].start
            /\ \A j, k \in 1..8 : Abs(PeriodMinutes(g[j]) - PeriodMinutes(g[k])) <= 1

\* a day of 12 h 1 min starting at 06:00:59: the eighth is 90 min 7.5 s, and
\* the segments returned are not all of the same length
C5_Witness ==
    /\ pc = "auspicious"
    /\ (request.sunsetJD - request.sunriseJD) % 8 # 0
    /\ response.gowriNeram[1].start = <<6, 0>>
    /\ \E j, k \in 1..8 :
          PeriodMinutes(response.gowriNeram[j]) # PeriodMinutes(response.gowriNeram[k])

\* C5 as stated: segment 1 starts at sunrise, segment 8 ends at sunset, each
\* segment ends where the next starts, and all 8 have the length
\* (sunset - sunrise) / 8.
C5_GowriTilingExact ==
    pc = "auspicious" =>
        LET g == response.gowriNeram
            localSunrise == (request.sunriseJD + UtcOffset(request.timezone)) % DaySeconds
            localSunset == (request.sunsetJD + UtcOffset(request.timezone)) % DaySeconds
        IN  /\ MinuteOfDay(g[1].start) * 60 = localSunrise
            /\ MinuteOfDay(g[8].end) * 60 = localSunset
            /\ \A k \in 1..7 : g[k].end = g[k + 1].start
            /\ \A k \in 1..8 :
                  8 * 60 * PeriodMinutes(g[k]) = request.sunsetJD - request.sunriseJD

----------------------------------------------------------------------------
(* config/tamilCalendar.ts *)

TAMIL_MONTHS == <<
    [index |-> 1,  name |-> "Chithirai", sunStartDegree |-> 0],
    [index |-> 2,  name |-> "Vaikasi",   sunStartDegree |-> 30],
    [index |-> 3,  name |-> "Aani",      sunStartDegree |-> 60],
    [index |-> 4,  name |-> "Aadi",      sunStartDegree |-> 90],
    [index |-> 5,  name |-> "Aavani",    sunStartDegree |-> 120],
    [index |-> 6,  name |-> "Purattasi", sunStartDegree |-> 150],
    [index |-> 7,  name |-> "Aippasi",   sunStartDegree |-> 180],
    [index |-> 8,  name |-> "Karthigai", sunStartDegree |-> 210],
    [index |-> 9,  name |-> "Margazhi",  sunStartDegree |-> 240],
    [index |-> 10, name |-> "Thai",      sunStartDegree |-> 270],
    [index |-> 11, name |-> "Maasi",     sunStartDegree |-> 300],
    [index |-> 12, name |-> "Panguni",   sunStartDegree |-> 330] >>

getTamilMonth(sunLongitude) ==
    LET normalized == Normalize360(sunLongitude)
        monthIndex == Floor(normalized, Deg(30))
    IN  IF monthIndex + 1 \in DOMAIN TAMIL_MONTHS
        THEN TAMIL_MONTHS[monthIndex + 1] ELSE TAMIL_MONTHS[0 + 1]

getTamilDay(sunLongitude) ==
    LET normalized == Normalize360(sunLongitude)
        degreeInSign == normalized % Deg(30)
    IN  Floor(degreeInSign, Deg(1)) + 1

----------------------------------------------------------------------------
(* config/festivals.ts and engine/festivals.ts.  The matcher reads three     *)
(* rule tables of its configuration; the model hands them to it, so that it  *)
(* can be run on other tables than the ones shipped.  Only the English name  *)
(* of a festival is read by the code.                                        *)

TithiRule(en, month, tithi, paksha) ==
    [name |-> [en |-> en], type |-> "hindu", month |-> month, tithi |-> tithi,
     paksha |-> paksha]

TITHI_BASED_FESTIVALS == <<
    TithiRule("Vinayagar Chaturthi", 5, 4, "shukla"),
    TithiRule("Navratri Begins", 6, 1, "shukla"),
    TithiRule("Vijayadashami", 6, 10, "shukla"),
    TithiRule("Deepavali", 7, 30, "krishna"),
    TithiRule("Karthigai Deepam", 8, 15, "shukla"),
    TithiRule("Maha Shivaratri", 11, 29, "krishna"),
    TithiRule("Holi", 12, 15, "shukla"),
    TithiRule("Tamil New Year", 1, 1, "shukla"),
    TithiRule("Akshaya Tritiya", 2, 3, "shukla"),
    TithiRule("Ekadashi", 0, 11, "shukla"),
    TithiRule("Ekadashi", 0, 26, "krishna"),
    TithiRule("Amavasya", 0, 30, "krishna"),
    TithiRule("Pournami", 0, 15, "shukla"),
    TithiRule("Pradosham", 0, 13, "shukla"),
    TithiRule("Pradosham", 0, 28, "krishna") >>

NakshatraRule(en, month, nakshatra) ==
    [name |-> [en |-> en], type |-> "hindu", month |-> month, nakshatra |-> nakshatra]

NAKSHATRA_BASED_FESTIVALS == <<
    NakshatraRule("Krishna Jayanthi", 5, 4),
    NakshatraRule("Thiruvathirai", 9, 6),
    NakshatraRule("Masi Magam", 11, 10),
    NakshatraRule("Chitirai Thirunal", 1, 14) >>

FixedRule(en, type, month, day) ==
    [name |-> [en |-> en], type |-> type, month |-> month, day |-> day]

FIXED_DATE_FESTIVALS == <<
    FixedRule("New Year", "government", 1, 1),
    FixedRule("Republic Day", "government", 1, 26),
    FixedRule("Independence Day", "government", 8, 15),
    FixedRule("Gandhi Jayanti", "government", 10, 2),
    FixedRule("Pongal", "hindu", 1, 14),
    FixedRule("Thiruvalluvar Day", "government", 1, 15),
    FixedRule("Mattu Pongal", "hindu", 1, 16),
    FixedRule("Christmas", "christian", 12, 25),
    FixedRule("Good Friday", "christian", 4, 7) >>

FestivalTables ==
    [tithi |-> TITHI_BASED_FESTIVALS,
     nakshatra |-> NAKSHATRA_BASED_FESTIVALS,
     fixed |-> FIXED_DATE_FESTIVALS]

\* for (const festival of table) if (Matches(festival)) festivals.push({name, type})
PushMatching(festivals, table, Matches(_)) ==
    LET matching == SelectSeq(table, Matches)
    IN  festivals \o [i \in DOMAIN matching |->
                         [name |-> matching[i].name, type |-> matching[i].type]]

\* self.findIndex(f => f.name.en === en), 0-based; -1 when there is none
FindIndexByName(self, en) ==
    IF \E i \in DOMAIN self : self[i].name.en = en
    THEN (CHOOSE i \in DOMAIN self :
             self[i].name.en = en /\ \A j \in 1..(i - 1) : self[j].name.en # en) - 1
    ELSE -1

\* Array.prototype.filter, the callback's verdict on each 0-based index given
\* as keep
RECURSIVE FilterFrom(_, _, _)
FilterFrom(self, index, keep) ==
    IF index >= Len(self) THEN << >>
    ELSE (IF keep[index] THEN <<self[index + 1]>> ELSE << >>)
             \o FilterFrom(self, index + 1, keep)

\* a variant that keeps the last festival of each name
UniqueByLastName(festivals) ==
    LET keep == [index \in 0..(Len(festivals) - 1) |->
                    \A j \in (index + 2)..Len(festivals) :
                        festivals[j].name.en # festivals[index + 1].name.en]
    IN  FilterFrom(festivals, 0, keep)

\* festivals.filter((festival, index, self) =>
\*     index === self.findIndex(f => f.name.en === festival.name.en))
UniqueByName(festivals) ==
    LET keep == [index \in 0..(Len(festivals) - 1) |->
                    index = FindIndexByName(festivals, festivals[index + 1].name.en)]
    IN  FilterFrom(festivals, 0, keep)

\* a variant in which a tithi-based rule also needs the paksha of the day's
\* tithi to be the one it names
getMatchingFestivalsInPaksha(tables, date, tithi, nakshatra, sunLongitude) ==
    LET gregorianMonth == date.month
        gregorianDay == date.day
        tamilMonth == getTamilMonth(sunLongitude)
        TithiMatches(festival) ==
            /\ festival.month = 0 \/ festival.month = tamilMonth.index
            /\ festival.tithi = tithi.index
            /\ PAKSHA[festival.paksha] = getPaksha(tithi.index)
        NakshatraMatches(festival) ==
            /\ festival.month = 0 \/ festival.month = tamilMonth.index
            /\ festival.nakshatra = nakshatra.index
        FixedMatches(festival) ==
            festival.month = gregorianMonth /\ festival.day = gregorianDay
        afterTithi == PushMatching(<< >>, tables.tithi, TithiMatches)
        afterNakshatra == PushMatching(afterTithi, tables.nakshatra, NakshatraMatches)
        festivals == PushMatching(afterNakshatra, tables.fixed, FixedMatches)
    IN  UniqueByName(festivals)

getMatchingFestivals(tables, date, tithi, nakshatra, sunLongitude) ==
    LET gregorianMonth == date.month
        gregorianDay == date.day
        tamilMonth == getTamilMonth(sunLongitude)
        TithiMatches(festival) ==
            /\ festival.month = 0 \/ festival.month = tamilMonth.index
            /\ festival.tithi = tithi.index
        NakshatraMatches(festival) ==
            /\ festival.month = 0 \/ festival.month = tamilMonth.index
            /\ festival.nakshatra = nakshatra.index
        \* getFixedFestivals(month, day)
        FixedMatches(festival) ==
            festival.month = gregorianMonth /\ festival.day = gregorianDay
        afterTithi == PushMatching(<< >>, tables.tithi, TithiMatches)
        afterNakshatra == PushMatching(afterTithi, tables.nakshatra, NakshatraMatches)
        festivals == PushMatching(afterNakshatra, tables.fixed, FixedMatches)
    IN  UniqueByName(festivals)

----------------------------------------------------------------------------
(* Specification SpecFestival: the matcher run on the shipped tables and on  *)
(* every triple of tables of at most MaxRules rules drawn from two rules of  *)
(* each kind, under two names.                                               *)

MaxRules == 2

SeqsUpTo(S, n) == UNION {[1..k -> S] : k \in 0..n}

\* tithi 4 is of the bright half: rule B names the other half
TithiRuleSamples == {TithiRule("A", 0, 4, "shukla"), TithiRule("B", 5, 4, "krishna")}
NakshatraRuleSamples == {NakshatraRule("A", 6, 4), NakshatraRule("B", 0, 4)}
FixedRuleSamples == {FixedRule("A", "government", 1, 14), FixedRule("B", "hindu", 1, 14)}

TableSamples ==
    {FestivalTables} \cup
    [tithi : SeqsUpTo(TithiRuleSamples, MaxRules),
     nakshatra : SeqsUpTo(NakshatraRuleSamples, MaxRules),
     fixed : SeqsUpTo(FixedRuleSamples, MaxRules)]

InitFestival ==
    /\ \E tables \in TableSamples, tithiIndex \in {4, 11, 30},
          sunDegree \in {125, 155, 185},
          day \in {14, 15} :
            request = [tables |-> tables,
                       date |-> [year |-> 2024, month |-> 1, day |-> day, weekday |-> IF day = 14 THEN 7 ELSE 1],
                       tithi |-> [index |-> tithiIndex],
                       nakshatra |-> [index |-> 4],
                       sunLongitude |-> Deg(sunDegree)]
    /\ eph = NoSky
    /\ pc = "ready"
    /\ response = Null
    /\ trace = Null
    /\ process = ProcessStarted

GetMatchingFestivals ==
    /\ pc = "ready"
    /\ response' = getMatchingFestivals(request.tables, request.date, request.tithi,
                                        request.nakshatra, request.sunLongitude)
    /\ trace' = Null
    /\ pc' = "festivals"
    /\ UNCHANGED <<process, eph, request>>

NextFestival == GetMatchingFestivals

SpecFestival == InitFestival /\ [][NextFestival]_vars

\* the rules of the request's tables that match the request, as {name, type},
\* tithi-based first, then nakshatra-based, then fixed-date
MatchingRules ==
    LET month == (request.sunLongitude \div Deg(30)) + 1
        TithiHit(r) == r.month \in {0, month} /\ r.tithi = request.tithi.index
        NakshatraHit(r) == r.month \in {0, month} /\ r.nakshatra = request.nakshatra.index
        FixedHit(r) == r.month = request.date.month /\ r.day = request.date.day
        all == SelectSeq(request.tables.tithi, TithiHit)
                 \o SelectSeq(request.tables.nakshatra, NakshatraHit)
                 \o SelectSeq(request.tables.fixed, FixedHit)
    IN  [i \in DOMAIN all |-> [name |-> all[i].name, type |-> all[i].type]]

FirstOccurrence(all, en) ==
    CHOOSE i \in DOMAIN all :
        all[i].name.en = en /\ \A j \in 1..(i - 1) : all[j].name.en # en

\* C6: for any tithi, nakshatra, Tamil month and date and any contents of the
\* three rule tables, no two festivals returned share an English name, and
\* the festivals returned are the first occurrences of their names in the
\* sequence of tithi-based, then nakshatra-based, then fixed-date matches, in
\* the order of that sequence.
C6_FestivalDedup ==
    pc = "festivals" =>
        LET all == MatchingRules
            out == response
        IN  /\ \A i, j \in DOMAIN out : out[i].name.en = out[j].name.en => i = j
            /\ {out[i].name.en : i \in DOMAIN out} = {all[i].name.en : i \in DOMAIN all}
            /\ \A i \in DOMAIN out : out[i] = all[FirstOccurrence(all, out[i].name.en)]
            /\ \A i, j \in DOMAIN out :
                  i < j => FirstOccurrence(all, out[i].name.en)
                             < FirstOccurrence(all, out[j].name.en)

\* the name B matches before A in the tithi table, A again in the nakshatra
\* table and both again in the fixed table: B, then A, each once
C6_Witness ==
    /\ pc = "festivals"
    /\ Len(MatchingRules) >= 4
    /\ MatchingRules[1].name.en = "B"
    /\ Len(response) = 2
    /\ response[1].name.en = "B"
    /\ response[2].name.en = "A"

----------------------------------------------------------------------------
(* config/nakshatra.ts: lookup by name *)

\* String.prototype.toLowerCase on the strings that occur: the 27 English
\* names and the names a request may carry; every other string that occurs is
\* its own lower case
LowerCaseOf ==
    "Ashwini" :> "ashwini" @@ "Bharani" :> "bharani" @@ "Krittika" :> "krittika" @@
    "Rohini" :> "rohini" @@ "Mrigashira" :> "mrigashira" @@ "Ardra" :> "ardra" @@
    "Punarvasu" :> "punarvasu" @@ "Pushya" :> "pushya" @@ "Ashlesha" :> "ashlesha" @@
    "Magha" :> "magha" @@ "Purva Phalguni" :> "purva phalguni" @@ "Uttara Phalguni" :> "uttara phalguni" @@
    "Hasta" :> "hasta" @@ "Chitra" :> "chitra" @@ "Swati" :> "swati" @@
    "Vishakha" :> "vishakha" @@ "Anuradha" :> "anuradha" @@ "Jyeshtha" :> "jyeshtha" @@
    "Moola" :> "moola" @@ "Purva Ashadha" :> "purva ashadha" @@ "Uttara Ashadha" :> "uttara ashadha" @@
    "Shravana" :> "shravana" @@ "Dhanishta" :> "dhanishta" @@ "Shatabhisha" :> "shatabhisha" @@
    "Purva Bhadrapada" :> "purva bhadrapada" @@ "Uttara Bhadrapada" :> "uttara bhadrapada" @@ "Revati" :> "revati" @@
    "ROHINI" :> "rohini" @@ "Rohni" :> "rohni" @@ "ta:Rohini" :> "ta:rohini"

toLowerCase(str) == IF str \in DOMAIN LowerCaseOf THEN LowerCaseOf[str] ELSE str

\* a variant that falls back on the first nakshatra
getNakshatraByNameOrFirst(name) ==
    IF \E i \in DOMAIN NAKSHATRAS :
          \/ toLowerCase(NAKSHATRAS[i].name.en) = toLowerCase(name)
          \/ NAKSHATRAS[i].name.ta = name
    THEN NAKSHATRAS[CHOOSE i \in DOMAIN NAKSHATRAS :
            /\ \/ toLowerCase(NAKSHATRAS[i].name.en) = toLowerCase(name)
               \/ NAKSHATRAS[i].name.ta = name
            /\ \A j \in 1..(i - 1) :
                  /\ toLowerCase(NAKSHATRAS[j].name.en) # toLowerCase(name)
                  /\ NAKSHATRAS[j].name.ta # name]
    ELSE NAKSHATRAS[1]

\* NAKSHATRAS.find(n => n.name.en.toLowerCase() === name.toLowerCase() ||
\*                      n.name.ta === name)
getNakshatraByName(name) ==
    IF \E i \in DOMAIN NAKSHATRAS :
          \/ toLowerCase(NAKSHATRAS[i].name.en) = toLowerCase(name)
          \/ NAKSHATRAS[i].name.ta = name
    THEN NAKSHATRAS[CHOOSE i \in DOMAIN NAKSHATRAS :
            /\ \/ toLowerCase(NAKSHATRAS[i].name.en) = toLowerCase(name)
               \/ NAKSHATRAS[i].name.ta = name
            /\ \A j \in 1..(i - 1) :
                  /\ toLowerCase(NAKSHATRAS[j].name.en) # toLowerCase(name)
                  /\ NAKSHATRAS[j].name.ta # name]
    ELSE Undefined

----------------------------------------------------------------------------
(* engine/chandrashtama.ts *)

\* a variant that counts the rasis from 0
getBirthMoonRasiFromZero(birthNakshatra) ==
    LET nakshatra == getNakshatraByName(birthNakshatra)
    IN  IF nakshatra = Undefined THEN Null
        ELSE [rasiIndex |-> Floor(MicroDeg(nakshatra.startDegree), RASI_SPAN)]

getBirthMoonRasi(birthNakshatra) ==
    LET nakshatra == getNakshatraByName(birthNakshatra)
    IN  IF nakshatra = Undefined THEN Null
        ELSE [rasiIndex |-> getRasiIndex(MicroDeg(nakshatra.startDegree))]

\* The code returns null or the record (info); startJD and endJD are the
\* instants it formats into the record.
calculateChandrashtama(julianDay, birthNakshatra, timezone) ==
    LET birthMoonRasi == getBirthMoonRasi(birthNakshatra)
    IN  IF birthMoonRasi = Null THEN [info |-> Null]
        ELSE
        LET chandrashtamaRasi == ((birthMoonRasi.rasiIndex - 1 + 7) % 12) + 1
            chandrashtamaRasiConfig == getRasiConfig(chandrashtamaRasi)
            moonLongitude == getMoonLongitude(julianDay)
            currentMoonRasi == getRasiIndex(moonLongitude)
            birthNakshatraConfig == getNakshatraByName(birthNakshatra)
        IN  IF currentMoonRasi # chandrashtamaRasi THEN [info |-> Null]
            ELSE
            LET chandrashtamaStart ==
                    IF chandrashtamaRasiConfig = Undefined THEN 0
                    ELSE Deg(chandrashtamaRasiConfig.startDegree)
                chandrashtamaEnd == chandrashtamaStart + RASI_SPAN
                startJD == findAngleCrossing(julianDay - 3 * DaySeconds, julianDay,
                                             chandrashtamaStart, "getMoonLongitude",
                                             Tolerance01)
                endJD == findAngleCrossing(julianDay, julianDay + 3 * DaySeconds,
                                           chandrashtamaEnd % Circle, "getMoonLongitude",
                                           Tolerance01)
                startTime == julianDayToDateTime(startJD, timezone)
                endTime == julianDayToDateTime(endJD, timezone)
            IN  [info |-> [isActive |-> TRUE,
                           startTime |-> formatTimeShort(startTime),
                           endTime |-> formatTimeShort(endTime),
                           birthNakshatra |->
                               IF birthNakshatraConfig = Undefined
                               THEN [en |-> birthNakshatra, ta |-> birthNakshatra]
                               ELSE birthNakshatraConfig.name,
                           currentMoonRasi |->
                               IF chandrashtamaRasiConfig = Undefined
                               THEN Unknown ELSE chandrashtamaRasiConfig.name],
                 startJD |-> startJD,
                 endJD |-> endJD]

----------------------------------------------------------------------------
(* config/tamilCalendar.ts: the year *)

TAMIL_YEARS == <<
    "Prabhava", "Vibhava", "Shukla", "Pramodoota", "Prajothpathi",
    "Aangirasa", "Sreemukha", "Bhava", "Yuva", "Dhaatu",
    "Eswara", "Bahudhanya", "Pramathi", "Vikrama", "Vishu",
    "Chitrabhanu", "Subhanu", "Tharana", "Parthiva", "Vyaya",
    "Sarvajithu", "Sarvadhari", "Virodhi", "Vikruthi", "Khara",
    "Nandana", "Vijaya", "Jaya", "Manmatha", "Durmukhi",
    "Hevilambi", "Vilambi", "Vikari", "Sharvari", "Plava",
    "Shubhakruthu", "Shobhakruthu", "Krodhi", "Vishwavasu", "Parabhava",
    "Plavanga", "Keelaka", "Sowmya", "Sadharana", "Virodhikruthu",
    "Parithaabi", "Pramadicha", "Ananda", "Rakshasa", "Nala",
    "Pingala", "Kalayukthi", "Siddharthi", "Raudri", "Durmathi",
    "Dundubhi", "Rudhirodgaari", "Raktakshi", "Krodhana", "Akshaya" >>

\* a variant that keeps the remainder as JavaScript gives it
getTamilYearSignedRemainder(gregorianYear) ==
    LET referenceYear == 2000
        referenceIndex == 23
        yearsSinceReference == gregorianYear - referenceYear
        cycleIndex == Remainder(referenceIndex + yearsSinceReference, 60)
        kaliYear == gregorianYear + 3101
    IN  [name |-> IF cycleIndex + 1 \in DOMAIN TAMIL_YEARS
                  THEN TAMIL_YEARS[cycleIndex + 1] ELSE TAMIL_YEARS[0 + 1],
         number |-> kaliYear]

getTamilYear(gregorianYear) ==
    LET referenceYear == 2000
        referenceIndex == 23
        yearsSinceReference == gregorianYear - referenceYear
        remainder == Remainder(referenceIndex + yearsSinceReference, 60)
        cycleIndex == IF remainder < 0 THEN remainder + 60 ELSE remainder
        kaliYear == gregorianYear + 3101
    IN  [name |-> IF cycleIndex + 1 \in DOMAIN TAMIL_YEARS
                  THEN TAMIL_YEARS[cycleIndex + 1] ELSE TAMIL_YEARS[0 + 1],
         number |-> kaliYear]

----------------------------------------------------------------------------
(* Specification SpecChandra: calculateChandrashtama called at a reference   *)
(* JD with the Moon at, next to and in the middle of every rasi.             *)

RasiSamples ==
    {(k * RASI_SPAN + d) % Circle : k \in 0..11, d \in Offsets \cup {Deg(15)}}

BirthSamples ==
    {NAKSHATRAS[i].name.en : i \in DOMAIN NAKSHATRAS}
    \cup {"rohini", "ROHINI", "ta:Rohini", "Rohni"}

InitChandra ==
    /\ \E birthNakshatra \in BirthSamples :
          request = [julianDay |-> 6 * 3600 + 17,
                     birthNakshatra |-> birthNakshatra,
                     timezone |-> "Asia/Kolkata"]
    /\ \E moon \in RasiSamples,
          moonMotion \in {MinMoonMotion, MaxMoonMotion},
          newYear \in NewYears(request.julianDay) :
            eph = Sky(request.julianDay, Deg(100) + 7, moon, MinSunMotion, moonMotion,
                      2024, newYear)
    /\ pc = "ready"
    /\ response = Null
    /\ trace = Null
    /\ process = ProcessStarted

CalculateChandrashtama ==
    /\ pc = "ready"
    /\ \E r \in {calculateChandrashtama(request.julianDay, request.birthNakshatra,
                                        request.timezone)} :
          response' = r.info /\ trace' = Internal(r)
    /\ pc' = "chandrashtama"
    /\ UNCHANGED <<process, eph, request>>

NextChandra == CalculateChandrashtama

SpecChandra == InitChandra /\ [][NextChandra]_vars

\* the rasi the Moon is in at the reference instant
MoonRasiAtReference == (getMoonLongitude(request.julianDay) \div Deg(30)) + 1

\* C9 (as amended): with birthNakshatra = "Rohini", calculateChandrashtama
\* returns a non-null (active) result if and only if the Moon at the
\* reference time is in rasi 9 (Dhanu), the 8th from Rohini's rasi 2
\* (Vrishabha); for every other Moon rasi it returns null.
C9_RohiniActiveInDhanu ==
    (pc = "chandrashtama" /\ request.birthNakshatra = "Rohini") =>
        /\ response # Null <=> MoonRasiAtReference = 9
        /\ response # Null =>
              /\ response.isActive
              /\ response.currentMoonRasi = "Dhanu"
              /\ response.birthNakshatra.en = "Rohini"

\* Rohini and the Moon in the first unit of Dhanu: active
C9_Witness ==
    /\ pc = "chandrashtama"
    /\ request.birthNakshatra = "Rohini"
    /\ getMoonLongitude(request.julianDay) = Deg(240)
    /\ response # Null
    /\ response.currentMoonRasi = "Dhanu"

\* C9 as stated: with birthNakshatra = "Rohini" the result is non-null if and
\* only if the Moon at the reference time is in rasi 11 (Kumbha).
C9_RohiniActiveInKumbha ==
    (pc = "chandrashtama" /\ request.birthNakshatra = "Rohini") =>
        (response # Null <=> MoonRasiAtReference = 11)

----------------------------------------------------------------------------
(* utils/datetime.ts and engine/swisseph.ts: civil dates and JavaScript Dates *)

\* A date string as the code reads it: whether it has the shape YYYY-MM-DD,
\* whether Luxon finds it a date of the calendar, its fields, and the number
\* of its day counted from the day whose 00:00:00 UTC is JD 0 of the model.
DateSamples ==
    [good |-> [text |-> "2024-01-14", wellFormed |-> TRUE, valid |-> TRUE,
               year |-> 2024, month |-> 1, day |-> 14, weekday |-> 7, dayNumber |-> 0],
     malformed |-> [text |-> "14-1-2024", wellFormed |-> FALSE, valid |-> FALSE,
                    year |-> 14, month |-> 1, day |-> 2024, weekday |-> 7, dayNumber |-> 0],
     nonexistent |-> [text |-> "2024-02-30", wellFormed |-> TRUE, valid |-> FALSE,
                      year |-> 2024, month |-> 2, day |-> 30, weekday |-> 5, dayNumber |-> 0]]

\* DateTime.now().setZone(timezone): valid, with a zone name, iff Luxon knows
\* the zone
isValidTimezone(timezone) ==
    LET dt == [ts |-> process.now * 1000, zone |-> timezone]
    IN  dt.zone \in Zones

\* DateTime.fromISO(dateStr, {zone}): local midnight of the date; the code
\* throws when Luxon finds the date or the zone invalid
createDateTime(date, timezone) ==
    IF ~date.valid \/ ~isValidTimezone(timezone)
    THEN [threw |-> "Invalid date or timezone"]
    ELSE [ts |-> (date.dayNumber * DaySeconds - UtcOffset(timezone)) * 1000,
          zone |-> timezone]

\* The Meeus formula applied to the UTC fields of local midnight: on the
\* model's scale, the seconds from JD 0 to that instant.
dateToJulianDay(date, timezone) ==
    LET dt == createDateTime(date, timezone)
    IN  IF "threw" \in DOMAIN dt THEN dt ELSE [jd |-> dt.ts \div 1000]

\* a JavaScript Date by its UTC calendar day and the seconds into it
julianDayToDate(jd) == [utcDay |-> Floor(jd, DaySeconds), utcSeconds |-> jd % DaySeconds]

\* engine/swisseph.ts has its own dateToJulianDay, from a Date
dateToJulianDayOfDate(date) == date.utcDay * DaySeconds + date.utcSeconds

setUTCHours(date, hours) == [date EXCEPT !.utcSeconds = hours * 3600]

\* SunCalc.getTimes: the library's answer is part of the sky; sunrise and
\* sunset are Dates, or Invalid Dates where the Sun does not cross the horizon.
\* A sky that says which UTC day its answer is for gives the same clock times
\* for a Date any number of days away.
SunCalcGetTimes(date, latitude, longitude) ==
    IF "utcDay" \notin DOMAIN eph.times
    THEN eph.times
    ELSE LET shift == date.utcDay - eph.times.utcDay
             OnDay(t) == IF t.valid THEN [t EXCEPT !.date.utcDay = @ + shift] ELSE t
         IN  [sunrise |-> OnDay(eph.times.sunrise), sunset |-> OnDay(eph.times.sunset)]

\* a variant whose fallback is noon
calculateSunriseAtNoon(jd, latitude, longitude) ==
    LET date == julianDayToDate(jd)
        times == SunCalcGetTimes(date, latitude, longitude)
    IN  IF ~times.sunrise.valid
        THEN dateToJulianDayOfDate(setUTCHours(date, 12))
        ELSE dateToJulianDayOfDate(times.sunrise.date)

calculateSunrise(jd, latitude, longitude) ==
    LET date == julianDayToDate(jd)
        times == SunCalcGetTimes(date, latitude, longitude)
    IN  IF ~times.sunrise.valid
        THEN LET noonDate == setUTCHours(date, 6)
             IN  dateToJulianDayOfDate(noonDate)
        ELSE dateToJulianDayOfDate(times.sunrise.date)

\* a variant whose fallback is the sunrise's, 06:00 UTC
calculateSunsetAtSix(jd, latitude, longitude) ==
    LET date == julianDayToDate(jd)
        times == SunCalcGetTimes(date, latitude, longitude)
    IN  IF ~times.sunset.valid
        THEN dateToJulianDayOfDate(setUTCHours(date, 6))
        ELSE dateToJulianDayOfDate(times.sunset.date)

calculateSunset(jd, latitude, longitude) ==
    LET date == julianDayToDate(jd)
        times == SunCalcGetTimes(date, latitude, longitude)
    IN  IF ~times.sunset.valid
        THEN LET sunsetDate == setUTCHours(date, 18)
             IN  dateToJulianDayOfDate(sunsetDate)
        ELSE dateToJulianDayOfDate(times.sunset.date)

\* The ascendant of the code is a closed formula of the sidereal time; the
\* model replaces it by its mean motion, one turn in a sidereal day of 86164
\* seconds (1253.4 units per second), from an ascendant given at the anchor.
calculateAscendant(jd, latitude, longitude) ==
    LET dt == jd - eph.at
        asc == (eph.ascTrop + 1253 * dt + (4 * dt) \div 10) % Circle
    IN  tropicalToSidereal(asc, UTCFullYear(jd))

----------------------------------------------------------------------------
(* engine/lagnam.ts *)

\* The walk for (jd = sunriseJD; jd <= fullDayEndJD; jd += timeStep) runs in
\* doubles.  A JD between 2^21 and 2^22 (the years 1029 to 6771) is a multiple
\* of 2^-31 day, so that nine steps of exactly 1/144 day are 2^27 such units;
\* every addition of timeStep moves jd by the nearest whole number of units.
UnitsPerNineSteps == 134217728

StepsPerDay == 144

\* a variant that cuts the step down to whole units
timeStepTruncated == UnitsPerNineSteps \div 9

\* timeStep = 1 / 144 as added to a JD: 14913080.89 units, rounded to nearest
timeStep == (UnitsPerNineSteps + 4) \div 9

\* jd <= fullDayEndJD after k additions of timeStep, that is
\* k * 9 * timeStep <= StepsPerDay * UnitsPerNineSteps, with k * UnitsPerNineSteps
\* taken from both sides
WithinFullDay(k) ==
    LET excess == k * (9 * timeStep - UnitsPerNineSteps)
        remaining == StepsPerDay - k
    IN  IF remaining < 0 THEN FALSE
        ELSE IF remaining = 0 \/ excess <= 0 THEN excess <= 0
        ELSE (excess + remaining - 1) \div remaining <= UnitsPerNineSteps

\* the steps at which the body of the loop runs
LagnamSamples == {k \in 0..StepsPerDay : \A j \in 0..k : WithinFullDay(j)}

\* what the try block gets at a step: a rasi index, or the error thrown
Threw == 0

LagnamStart(sunriseJD) ==
    [prevRasiIndex |-> -1, periodStart |-> sunriseJD, periodStartTime |-> Null,
     lagnams |-> << >>, spans |-> << >>]

\* a variant in which a step that fails ends the run in progress
LagnamBodyFailureEndsRun(loop, jd, sample, timezone) ==
    IF sample = Threw THEN [loop EXCEPT !.prevRasiIndex = -1]
    ELSE LET rasiIndex == sample
             changed == loop.prevRasiIndex # -1 /\ rasiIndex # loop.prevRasiIndex
             rasiConfig == getRasiConfig(loop.prevRasiIndex)
             push == changed /\ rasiConfig # Undefined /\ loop.periodStartTime # Null
             periodEndTime == julianDayToDateTime(jd, timezone)
         IN  [prevRasiIndex |-> rasiIndex,
              periodStart |-> IF changed THEN jd ELSE loop.periodStart,
              periodStartTime |->
                  IF changed \/ loop.prevRasiIndex = -1
                  THEN julianDayToDateTime(jd, timezone)
                  ELSE loop.periodStartTime,
              lagnams |->
                  IF push
                  THEN Append(loop.lagnams,
                              [index |-> loop.prevRasiIndex,
                               rasi |-> rasiConfig.name,
                               start |-> formatTimeShort(loop.periodStartTime),
                               end |-> formatTimeShort(periodEndTime)])
                  ELSE loop.lagnams,
              spans |->
                  IF push
                  THEN Append(loop.spans,
                              [start |-> loop.periodStartTime.ts \div 1000, end |-> jd])
                  ELSE loop.spans]

\* the body of the loop at jd; spans keeps, beside lagnams, the JDs that the
\* code formats into start and end
LagnamBody(loop, jd, sample, timezone) ==
    IF sample = Threw THEN loop
    ELSE LET rasiIndex == sample
             changed == loop.prevRasiIndex # -1 /\ rasiIndex # loop.prevRasiIndex
             rasiConfig == getRasiConfig(loop.prevRasiIndex)
             push == changed /\ rasiConfig # Undefined /\ loop.periodStartTime # Null
             periodEndTime == julianDayToDateTime(jd, timezone)
         IN  [prevRasiIndex |-> rasiIndex,
              periodStart |-> IF changed THEN jd ELSE loop.periodStart,
              periodStartTime |->
                  IF changed \/ loop.prevRasiIndex = -1
                  THEN julianDayToDateTime(jd, timezone)
                  ELSE loop.periodStartTime,
              lagnams |->
                  IF push
                  THEN Append(loop.lagnams,
                              [index |-> loop.prevRasiIndex,
                               rasi |-> rasiConfig.name,
                               start |-> formatTimeShort(loop.periodStartTime),
                               end |-> formatTimeShort(periodEndTime)])
                  ELSE loop.lagnams,
              spans |->
                  IF push
                  THEN Append(loop.spans,
                              [start |-> loop.periodStartTime.ts \div 1000, end |-> jd])
                  ELSE loop.spans]

\* the steps from k to last that the loop condition lets through, with the
\* variables as they stand; samples[k + 1] is what step k gets.  (The variables
\* are read before the loop condition so that each step is evaluated before
\* the next is entered.)
RECURSIVE LagnamSteps(_, _, _, _, _, _)
LagnamSteps(loop, k, last, samples, sunriseJD, timezone) ==
    IF loop.prevRasiIndex >= -1 /\ k <= last /\ WithinFullDay(k)
    THEN LagnamSteps(LagnamBody(loop, sunriseJD + 600 * k, samples[k + 1], timezone),
                     k + 1, last, samples, sunriseJD, timezone)
    ELSE loop

\* the loop from step k on, taken twelve steps at a time
RECURSIVE LagnamLoop(_, _, _, _, _)
LagnamLoop(loop, k, samples, sunriseJD, timezone) ==
    IF loop.prevRasiIndex >= -1 /\ WithinFullDay(k)
    THEN LagnamLoop(LagnamSteps(loop, k, k + 11, samples, sunriseJD, timezone),
                    k + 12, samples, sunriseJD, timezone)
    ELSE loop

\* "Add the last period"
LagnamLast(loop, fullDayEndJD, timezone) ==
    IF loop.prevRasiIndex # -1 /\ loop.periodStartTime # Null
    THEN LET rasiConfig == getRasiConfig(loop.prevRasiIndex)
             endTime == julianDayToDateTime(fullDayEndJD, timezone)
         IN  IF rasiConfig # Undefined
             THEN [loop EXCEPT
                     !.lagnams = Append(@, [index |-> loop.prevRasiIndex,
                                            rasi |-> rasiConfig.name,
                                            start |-> formatTimeShort(loop.periodStartTime),
                                            end |-> formatTimeShort(endTime)]),
                     !.spans = Append(@, [start |-> loop.periodStartTime.ts \div 1000,
                                          end |-> fullDayEndJD])]
             ELSE loop
    ELSE loop

\* the function from the samples on
LagnamWalk(samples, sunriseJD, timezone) ==
    LET fullDayEndJD == sunriseJD + 1 * DaySeconds
    IN  LagnamLast(LagnamLoop(LagnamStart(sunriseJD), 0, samples, sunriseJD, timezone),
                   fullDayEndJD, timezone)

\* calculateAscendant and getRasiIndex throw nothing
calculateDayLagnams(sunriseJD, sunsetJD, latitude, longitude, timezone) ==
    LET samples == [n \in 1..(StepsPerDay + 1) |->
                       getRasiIndex(calculateAscendant(sunriseJD + 600 * (n - 1),
                                                       latitude, longitude))]
    IN  LagnamWalk(samples, sunriseJD, timezone).lagnams

----------------------------------------------------------------------------
(* Specification SpecDaily: POST /api/panchangam, from the route through the *)
(* controller to the service, one action per statement of the service.       *)
(* trace holds the service's local variables, and beside them the order in   *)
(* which the steps ran (order) and the JD each limb engine was handed        *)
(* (evaluatedAt).                                                            *)

\* an optional string of the request body
Absent == [present |-> FALSE]
Some(str) == [present |-> TRUE, value |-> str]
\* JavaScript's truthiness of an optional string
Truthy(opt) == opt.present /\ opt.value # ""

ADate(jd) == [valid |-> TRUE, date |-> julianDayToDate(jd)]
InvalidDate == [valid |-> FALSE]

\* the answers of SunCalc for a request at a local sunrise clock time: a
\* sunrise and a sunset, or neither (the Sun stays on one side of the horizon)
TimesSamples(timezone) ==
    {[sunrise |-> ADate(clock - UtcOffset(timezone)),
      sunset |-> ADate(clock - UtcOffset(timezone) + 12 * 3600 + 61)] :
        clock \in {6 * 3600, 6 * 3600 + 59}}
    \cup {[sunrise |-> InvalidDate, sunset |-> InvalidDate]}

DailyBirthSamples ==
    {Absent, Some(""), Some("Rohini"), Some("ta:Rohini"), Some("Rohni")}

\* latitude 78 is the one at which the Sun may fail to rise
WellFormedRequests ==
    {[date |-> DateSamples.good, latitude |-> latitude, longitude |-> 80,
      timezone |-> timezone, birthNakshatra |-> birthNakshatra] :
        latitude \in {13, 78}, timezone \in Zones, birthNakshatra \in DailyBirthSamples}

IllFormedRequests ==
    LET base == [date |-> DateSamples.good, latitude |-> 13, longitude |-> 80,
                 timezone |-> "Asia/Kolkata", birthNakshatra |-> Some("Rohni")]
    IN  {[base EXCEPT !.date = DateSamples.malformed],
         [base EXCEPT !.date = DateSamples.nonexistent],
         [base EXCEPT !.latitude = 91],
         [base EXCEPT !.longitude = -181],
         [base EXCEPT !.timezone = ""],
         [base EXCEPT !.timezone = "Mars/Olympus"]}

InitDaily ==
    /\ request \in WellFormedRequests \cup IllFormedRequests
    /\ \E moon \in {Deg(100), Deg(222), Deg(252)},
          times \in TimesSamples(IF request.timezone \in Zones
                                 THEN request.timezone ELSE "UTC") :
          /\ ~times.sunrise.valid => request.latitude = 78
          /\ request \in IllFormedRequests => (moon = Deg(252) /\ times.sunrise.valid)
          /\ eph = Sky(0, Deg(270), moon, MinSunMotion, MaxMoonMotion, 2024,
                       300 * DaySeconds)
                     @@ [times |-> times, ascTrop |-> Deg(200)]
    /\ pc = "route"
    /\ response = Null
    /\ trace = Null
    /\ process = ProcessStarted

Fail(status, error, message) ==
    [status |-> status, body |-> [error |-> error, message |-> message]]

\* routes/panchangam.ts: panchangamRequestSchema.safeParse(req.body)
SchemaAccepts(body) ==
    /\ body.date.wellFormed
    /\ body.latitude >= -90 /\ body.latitude <= 90
    /\ body.longitude >= -180 /\ body.longitude <= 180
    /\ body.timezone # ""

Route ==
    /\ pc = "route"
    /\ IF SchemaAccepts(request)
       THEN pc' = "controller" /\ UNCHANGED response
       ELSE pc' = "done" /\ response' = Fail(400, "Validation failed", "details")
    /\ UNCHANGED <<process, eph, request, trace>>

\* controllers/panchangamController.ts: calculate, up to the call of the
\* service; what it throws the route catches and answers with 500
ControllerError(req) ==
    IF ~isValidTimezone(req.timezone) THEN "Invalid timezone"
    ELSE IF ~req.date.wellFormed THEN "Date must be in YYYY-MM-DD format"
    ELSE IF req.latitude < -90 \/ req.latitude > 90
         THEN "Latitude must be between -90 and 90"
    ELSE IF req.longitude < -180 \/ req.longitude > 180
         THEN "Longitude must be between -180 and 180"
    ELSE ""

Locals ==
    [startOfDayJD |-> Null, sunriseJD |-> Null, sunsetJD |-> Null,
     sunLongitude |-> Null, tamilCalendar |-> Null, tithi |-> Null,
     nakshatra |-> Null, yoga |-> Null, karana |-> Null, moonRasi |-> Null,
     lagnam |-> Null, inauspiciousPeriods |-> Null, auspiciousPeriods |-> Null,
     festivals |-> Null, chandrashtama |-> Null,
     order |-> << >>, evaluatedAt |-> << >>]

Controller ==
    /\ pc = "controller"
    /\ IF ControllerError(request) = ""
       THEN pc' = "svc:startOfDay" /\ trace' = Locals /\ UNCHANGED response
       ELSE /\ pc' = "done"
            /\ response' = Fail(500, "Calculation failed", ControllerError(request))
            /\ UNCHANGED trace
    /\ UNCHANGED <<process, eph, request>>

\* one statement of the service has run
Ran(step) == [trace EXCEPT !.order = Append(@, step)]
\* ... and it was the call of a limb engine at julianDay
RanAt(step, julianDay) ==
    [trace EXCEPT !.order = Append(@, step),
                  !.evaluatedAt = (step :> julianDay) @@ @]

\* a variant that records that it has run
initSwissEphOnce(swisseph) == [initialised |-> TRUE]

\* engine/swisseph.ts: initSwissEph, a no-op
initSwissEph(swisseph) == swisseph

SvcStartOfDay ==
    /\ pc = "svc:startOfDay"
    /\ process' = [process EXCEPT !.swisseph = initSwissEph(@)]
    /\ \E r \in {dateToJulianDay(request.date, request.timezone)} :
          IF "threw" \in DOMAIN r
          THEN /\ pc' = "done"
               /\ response' = Fail(500, "Calculation failed", r.threw)
               /\ UNCHANGED trace
          ELSE /\ pc' = "svc:sunrise"
               /\ trace' = [Ran("startOfDay") EXCEPT !.startOfDayJD = r.jd]
               /\ UNCHANGED response
    /\ UNCHANGED <<eph, request>>

SvcSunrise ==
    /\ pc = "svc:sunrise"
    /\ trace' = [Ran("sunrise") EXCEPT !.sunriseJD =
                    calculateSunrise(trace.startOfDayJD, request.latitude,
                                     request.longitude)]
    /\ pc' = "svc:sunset"
    /\ UNCHANGED <<process, eph, request, response>>

SvcSunset ==
    /\ pc = "svc:sunset"
    /\ trace' = [Ran("sunset") EXCEPT !.sunsetJD =
                    calculateSunset(trace.startOfDayJD, request.latitude,
                                    request.longitude)]
    /\ pc' = "svc:tamilCalendar"
    /\ UNCHANGED <<process, eph, request, response>>

SvcTamilCalendar ==
    /\ pc = "svc:tamilCalendar"
    /\ \E sunLongitude \in {getSunLongitude(trace.sunriseJD)} :
          trace' = [Ran("tamilCalendar") EXCEPT
                      !.sunLongitude = sunLongitude,
                      !.tamilCalendar = [month |-> getTamilMonth(sunLongitude).name,
                                         day |-> getTamilDay(sunLongitude),
                                         year |-> getTamilYear(request.date.year)]]
    /\ pc' = "svc:tithi"
    /\ UNCHANGED <<process, eph, request, response>>

\* a variant that hands the limb engines the start of the civil day
LimbInstantStartOfDay(locals) == locals.startOfDayJD

\* the JD the service hands every limb engine: sunriseJD
LimbInstant(locals) == locals.sunriseJD

SvcTithi ==
    /\ pc = "svc:tithi"
    /\ \E julianDay \in {LimbInstant(trace)} :
       \E r \in {calculateTithi(julianDay, request.timezone)} :
          IF "threw" \in DOMAIN r
          THEN /\ pc' = "done"
               /\ response' = Fail(500, "Calculation failed", r.threw)
               /\ UNCHANGED trace
          ELSE /\ pc' = "svc:nakshatra"
               /\ trace' = [RanAt("tithi", julianDay) EXCEPT !.tithi = r.info]
               /\ UNCHANGED response
    /\ UNCHANGED <<process, eph, request>>

SvcNakshatra ==
    /\ pc = "svc:nakshatra"
    /\ \E julianDay \in {LimbInstant(trace)} :
       \E r \in {calculateNakshatra(julianDay, request.timezone)} :
          IF "threw" \in DOMAIN r
          THEN /\ pc' = "done"
               /\ response' = Fail(500, "Calculation failed", r.threw)
               /\ UNCHANGED trace
          ELSE /\ pc' = "svc:yoga"
               /\ trace' = [RanAt("nakshatra", julianDay) EXCEPT !.nakshatra = r.info]
               /\ UNCHANGED response
    /\ UNCHANGED <<process, eph, request>>

SvcYoga ==
    /\ pc = "svc:yoga"
    /\ \E julianDay \in {LimbInstant(trace)} :
       \E r \in {calculateYoga(julianDay, request.timezone)} :
          IF "threw" \in DOMAIN r
          THEN /\ pc' = "done"
               /\ response' = Fail(500, "Calculation failed", r.threw)
               /\ UNCHANGED trace
          ELSE /\ pc' = "svc:karana"
               /\ trace' = [RanAt("yoga", julianDay) EXCEPT !.yoga = r.info]
               /\ UNCHANGED response
    /\ UNCHANGED <<process, eph, request>>

SvcKarana ==
    /\ pc = "svc:karana"
    /\ \E julianDay \in {LimbInstant(trace)} :
       \E r \in {calculateKarana(julianDay, request.timezone)} :
          IF "threw" \in DOMAIN r
          THEN /\ pc' = "done"
               /\ response' = Fail(500, "Calculation failed", r.threw)
               /\ UNCHANGED trace
          ELSE /\ pc' = "svc:moonRasi"
               /\ trace' = [RanAt("karana", julianDay) EXCEPT !.karana = r.info]
               /\ UNCHANGED response
    /\ UNCHANGED <<process, eph, request>>

SvcMoonRasi ==
    /\ pc = "svc:moonRasi"
    /\ \E julianDay \in {LimbInstant(trace)} :
       \E r \in {calculateMoonRasi(julianDay)} :
          IF "threw" \in DOMAIN r
          THEN /\ pc' = "done"
               /\ response' = Fail(500, "Calculation failed", r.threw)
               /\ UNCHANGED trace
          ELSE /\ pc' = "svc:lagnam"
               /\ trace' = [RanAt("moonRasi", julianDay) EXCEPT !.moonRasi = r.info]
               /\ UNCHANGED response
    /\ UNCHANGED <<process, eph, request>>

SvcLagnam ==
    /\ pc = "svc:lagnam"
    /\ trace' = [Ran("lagnam") EXCEPT !.lagnam =
                    calculateDayLagnams(trace.sunriseJD, trace.sunsetJD,
                                        request.latitude, request.longitude,
                                        request.timezone)]
    /\ pc' = "svc:inauspicious"
    /\ UNCHANGED <<process, eph, request, response>>

SvcInauspicious ==
    /\ pc = "svc:inauspicious"
    /\ trace' = [Ran("inauspiciousPeriods") EXCEPT !.inauspiciousPeriods =
                    calculateInauspiciousPeriods(trace.sunriseJD, trace.sunsetJD,
                                                 request.date, request.timezone)]
    /\ pc' = "svc:auspicious"
    /\ UNCHANGED <<process, eph, request, response>>

SvcAuspicious ==
    /\ pc = "svc:auspicious"
    /\ trace' = [Ran("auspiciousPeriods") EXCEPT !.auspiciousPeriods =
                    calculateAuspiciousPeriods(trace.sunriseJD, trace.sunsetJD,
                                               request.date, request.timezone)]
    /\ pc' = "svc:festivals"
    /\ UNCHANGED <<process, eph, request, response>>

SvcFestivals ==
    /\ pc = "svc:festivals"
    /\ trace' = [Ran("festivals") EXCEPT !.festivals =
                    getMatchingFestivals(FestivalTables, request.date, trace.tithi,
                                         trace.nakshatra, trace.sunLongitude)]
    /\ pc' = "svc:chandrashtama"
    /\ UNCHANGED <<process, eph, request, response>>

\* birthNakshatra ? calculateChandrashtama(sunriseJD, birthNakshatra, timezone) : null
SvcChandrashtama ==
    /\ pc = "svc:chandrashtama"
    /\ IF Truthy(request.birthNakshatra)
       THEN \E julianDay \in {LimbInstant(trace)} :
            \E r \in {calculateChandrashtama(julianDay, request.birthNakshatra.value,
                                             request.timezone)} :
               trace' = [RanAt("chandrashtama", julianDay) EXCEPT !.chandrashtama = r.info]
       ELSE trace' = [Ran("chandrashtama:null") EXCEPT !.chandrashtama = Null]
    /\ pc' = "svc:return"
    /\ UNCHANGED <<process, eph, request, response>>

\* the report; res.json(result) answers with status 200
SvcReturn ==
    /\ pc = "svc:return"
    /\ LET sunriseTime == julianDayToDateTime(trace.sunriseJD, request.timezone)
           sunsetTime == julianDayToDateTime(trace.sunsetJD, request.timezone)
       IN  response' =
             [status |-> 200,
              body |-> [date |-> request.date.text,
                        location |-> [latitude |-> request.latitude,
                                      longitude |-> request.longitude,
                                      timezone |-> request.timezone],
                        tamilCalendar |-> trace.tamilCalendar,
                        sunrise |-> formatTime(sunriseTime),
                        sunset |-> formatTime(sunsetTime),
                        tithi |-> trace.tithi,
                        nakshatra |-> trace.nakshatra,
                        yoga |-> trace.yoga,
                        karana |-> trace.karana,
                        moonRasi |-> trace.moonRasi,
                        lagnam |-> trace.lagnam,
                        inauspiciousPeriods |-> trace.inauspiciousPeriods,
                        auspiciousPeriods |-> trace.auspiciousPeriods,
                        festivals |-> trace.festivals,
                        chandrashtama |-> trace.chandrashtama]]
    /\ pc' = "done"
    /\ UNCHANGED <<process, eph, request, trace>>

NextDaily ==
    \/ Route
    \/ Controller
    \/ SvcStartOfDay
    \/ SvcSunrise
    \/ SvcSunset
    \/ SvcTamilCalendar
    \/ SvcTithi
    \/ SvcNakshatra
    \/ SvcYoga
    \/ SvcKarana
    \/ SvcMoonRasi
    \/ SvcLagnam
    \/ SvcInauspicious
    \/ SvcAuspicious
    \/ SvcFestivals
    \/ SvcChandrashtama
    \/ SvcReturn

SpecDaily == InitDaily /\ [][NextDaily]_vars

----------------------------------------------------------------------------
(* Properties of the daily report (checked under SpecDaily) *)

ReportFields ==
    {"date", "location", "tamilCalendar", "sunrise", "sunset", "tithi", "nakshatra",
     "yoga", "karana", "moonRasi", "lagnam", "inauspiciousPeriods",
     "auspiciousPeriods", "festivals", "chandrashtama"}

\* the request has finished, and nothing but its birthNakshatra or the Sun can
\* be wrong with it
FinishedOtherwiseValid ==
    /\ pc = "done"
    /\ "birthNakshatra" \in DOMAIN request
    /\ request.date.wellFormed /\ request.date.valid
    /\ request.latitude \in -90..90 /\ request.longitude \in -180..180
    /\ request.timezone \in Zones

\* the request carries a birthNakshatra that is no nakshatra's English name in
\* any case, nor its Tamil name
UnknownBirthNakshatra ==
    /\ request.birthNakshatra.present
    /\ \A i \in DOMAIN NAKSHATRAS :
          /\ toLowerCase(NAKSHATRAS[i].name.en) # toLowerCase(request.birthNakshatra.value)
          /\ NAKSHATRAS[i].name.ta # request.birthNakshatra.value

\* C7 (as amended): a request whose birthNakshatra matches no nakshatra name
\* is not rejected and no error is surfaced: the daily report is returned in
\* full, with status 200 and chandrashtama = null.
C7_UnknownBirthReportedNull ==
    (FinishedOtherwiseValid /\ UnknownBirthNakshatra) =>
        /\ response.status = 200
        /\ DOMAIN response.body = ReportFields
        /\ response.body.chandrashtama = Null

\* "Rohni", on a day on which the Moon is in Dhanu, where Rohini's
\* chandrashtama falls
C7_Witness ==
    /\ FinishedOtherwiseValid
    /\ request.birthNakshatra = Some("Rohni")
    /\ response.status = 200
    /\ response.body.moonRasi.index = 9
    /\ response.body.chandrashtama = Null

\* C7 as stated: such a request is surfaced as an error and rejected whole, no
\* daily report being returned for it.
C7_UnknownBirthRejected ==
    (FinishedOtherwiseValid /\ UnknownBirthNakshatra) =>
        /\ response.status # 200
        /\ "error" \in DOMAIN response.body

NoDiurnalEvent == ~eph.times.sunrise.valid \/ ~eph.times.sunset.valid

\* the local clock reading of the given hour UTC of the UTC calendar day that
\* holds the local midnight starting the requested date
FallbackClock(hoursUTC) ==
    LET offset == UtcOffset(request.timezone)
        midnight == request.date.dayNumber * DaySeconds - offset
        local == (midnight \div DaySeconds) * DaySeconds + hoursUTC * 3600 + offset
    IN  <<(local \div 3600) % 24, (local \div 60) % 60, local % 60>>

DaySegmentsProduced(body) ==
    /\ DOMAIN body.inauspiciousPeriods = {"rahuKalam", "yamaGandam", "kuligai"}
    /\ \A p \in DOMAIN body.inauspiciousPeriods :
          DOMAIN body.inauspiciousPeriods[p] = {"start", "end"}
    /\ Len(body.auspiciousPeriods.gowriNeram) = 8
    /\ Len(body.auspiciousPeriods.nallaNeram) = 4

LimbSteps == {"tithi", "nakshatra", "yoga", "karana", "moonRasi"}

Position(order, step) == CHOOSE i \in DOMAIN order : order[i] = step

\* C10: in calculatePanchangam the sunrise is computed before any limb; tithi,
\* nakshatra, yoga, karana, Moon rasi and Chandrashtama are all evaluated at
\* that sunrise JD, not at the start-of-day JD nor anywhere else; Chandrashtama
\* is evaluated only when a birth nakshatra is supplied, and is null otherwise.
C10_LimbsAtSunrise ==
    "evaluatedAt" \in DOMAIN trace =>
        /\ \A step \in DOMAIN trace.evaluatedAt :
              /\ step \in LimbSteps \cup {"chandrashtama"}
              /\ \E i \in DOMAIN trace.order : trace.order[i] = "sunrise"
              /\ Position(trace.order, "sunrise") < Position(trace.order, step)
              /\ trace.evaluatedAt[step] = trace.sunriseJD
              /\ trace.evaluatedAt[step] # trace.startOfDayJD
              /\ trace.sunriseJD = calculateSunrise(trace.startOfDayJD, request.latitude,
                                                    request.longitude)
        /\ "chandrashtama" \in DOMAIN trace.evaluatedAt => request.birthNakshatra.present
        /\ (pc = "done" /\ response.status = 200) =>
              /\ LimbSteps \subseteq DOMAIN trace.evaluatedAt
              /\ ~request.birthNakshatra.present =>
                    /\ "chandrashtama" \notin DOMAIN trace.evaluatedAt
                    /\ response.body.chandrashtama = Null

\* a report with an active Chandrashtama: all six evaluations made, at a
\* sunrise that is not the start of the day
C10_Witness ==
    /\ pc = "done"
    /\ response.status = 200
    /\ DOMAIN trace.evaluatedAt = LimbSteps \cup {"chandrashtama"}
    /\ trace.sunriseJD # trace.startOfDayJD
    /\ response.body.chandrashtama # Null
    /\ response.body.chandrashtama.isActive

----------------------------------------------------------------------------
(* The same request served again by the same process, later                *)

MaxRepeats == 1
ClockSteps == {1, DaySeconds + 1}

\* the response goes out; later the client posts the same body again
RequestAgain ==
    /\ pc = "done"
    /\ Len(process.sent) < MaxRepeats
    /\ \E later \in ClockSteps :
          process' = [process EXCEPT !.now = @ + later,
                                     !.sent = Append(@, response)]
    /\ pc' = "route"
    /\ response' = Null
    /\ trace' = Null
    /\ UNCHANGED <<eph, request>>

NextRepeat == NextDaily \/ RequestAgain

SpecRepeat == InitDaily /\ [][NextRepeat]_vars

----------------------------------------------------------------------------
(* Sidereal longitudes on their own: tropical longitudes at, next to and    *)
(* far from the ayanamsa of years in which the ayanamsa is negative, small, *)
(* today's, and more than a full circle                                     *)

YearSamples == {-30000, 292, 293, 2000, 2024, 28000}

TropicalSamples(year) ==
    LET ayanamsa == getAyanamsa(year) % Circle
    IN  {0, 1, Circle - 1, HalfCircle}
        \cup {(ayanamsa + d) % Circle : d \in {-1, 0, 1}}

InitSidereal ==
    /\ \E year \in YearSamples, julianDay \in {0, 3600} :
       \E tropical \in TropicalSamples(year) \cup TropicalSamples(year + 1) :
          /\ request = [tropicalLongitude |-> tropical, year |-> year,
                        julianDay |-> julianDay]
          /\ eph = [at |-> julianDay, sunTrop |-> tropical,
                    moonTrop |-> (Circle - tropical) % Circle,
                    sunMotion |-> MinSunMotion, moonMotion |-> MaxMoonMotion,
                    year |-> year, newYear |-> 3600]
    /\ pc = "ready"
    /\ response = Null
    /\ trace = Null
    /\ process = ProcessStarted

TropicalToSidereal ==
    /\ pc = "ready"
    /\ response' = tropicalToSidereal(request.tropicalLongitude, request.year)
    /\ trace' = [tropical |-> request.tropicalLongitude,
                 ayanamsa |-> getAyanamsa(request.year)]
    /\ pc' = "tropicalToSidereal"
    /\ UNCHANGED <<process, eph, request>>

GetSunLongitude ==
    /\ pc = "ready"
    /\ response' = getSunLongitude(request.julianDay)
    /\ trace' = [tropical |-> getSunTropicalLongitude(request.julianDay),
                 ayanamsa |-> getAyanamsa(UTCFullYear(request.julianDay))]
    /\ pc' = "sunLongitude"
    /\ UNCHANGED <<process, eph, request>>

GetMoonLongitude ==
    /\ pc = "ready"
    /\ response' = getMoonLongitude(request.julianDay)
    /\ trace' = [tropical |-> getMoonTropicalLongitude(request.julianDay),
                 ayanamsa |-> getAyanamsa(UTCFullYear(request.julianDay))]
    /\ pc' = "moonLongitude"
    /\ UNCHANGED <<process, eph, request>>

NextSidereal == TropicalToSidereal \/ GetSunLongitude \/ GetMoonLongitude

SpecSidereal == InitSidereal /\ [][NextSidereal]_vars

\* C12: the sidereal Sun and Moon longitudes are in [0, 360) at every JD:
\* for every tropical longitude in [0, 360) and every ayanamsa value,
\* tropicalToSidereal returns v with 0 <= v < 360, v being tropical minus
\* ayanamsa up to whole circles, also when that difference is negative.
C12_SiderealInRange ==
    pc \in {"tropicalToSidereal", "sunLongitude", "moonLongitude"} =>
        /\ trace.tropical >= 0 /\ trace.tropical < Circle
        /\ response >= 0
        /\ response < Circle
        /\ (response - (trace.tropical - trace.ayanamsa)) % Circle = 0

\* the Sun one unit short of the ayanamsa: the difference is negative and the
\* longitude returned is one unit short of 360
C12_Witness ==
    /\ pc = "sunLongitude"
    /\ trace.tropical - trace.ayanamsa = -1
    /\ response = Circle - 1

----------------------------------------------------------------------------
(* getTamilYear on its own, for the years around 1977, the first year for    *)
(* which 23 + y - 2000 is not negative, and a few far ones                   *)

MaxYearSpan == 65
GregorianYears ==
    ((1977 - MaxYearSpan)..(1977 + MaxYearSpan)) \cup {-3101, -1, 0, 1, 9999}

InitTamilYear ==
    /\ request \in [gregorianYear : GregorianYears]
    /\ eph = NoSky
    /\ pc = "ready"
    /\ response = Null
    /\ trace = Null
    /\ process = ProcessStarted

GetTamilYear ==
    /\ pc = "ready"
    /\ response' = getTamilYear(request.gregorianYear)
    /\ pc' = "tamilYear"
    /\ UNCHANGED <<process, eph, request, trace>>

NextTamilYear == GetTamilYear

SpecTamilYear == InitTamilYear /\ [][NextTamilYear]_vars

\* C13: for every integer Gregorian year y, also when 23 + y - 2000 is
\* negative, getTamilYear returns the name at index (23 + y - 2000) mod 60,
\* taken in 0..59, of the 60-entry list, so that year 2000 has index 23 and y
\* and y + 60 have the same name, and the number y + 3101.
C13_TamilYearCycle ==
    pc = "tamilYear" =>
        LET y == request.gregorianYear
            index == (23 + y - 2000) % 60
        IN  /\ Len(TAMIL_YEARS) = 60
            /\ index \in 0..59
            /\ response.name = TAMIL_YEARS[index + 1]
            /\ response.number = y + 3101
            /\ y = 2000 => response.name = TAMIL_YEARS[23 + 1]
            /\ getTamilYear(y + 60).name = response.name

\* 1976, the last year for which 23 + y - 2000 is negative: the 60th name
C13_Witness ==
    /\ pc = "tamilYear"
    /\ request.gregorianYear = 1976
    /\ response = [name |-> TAMIL_YEARS[60], number |-> 5077]

----------------------------------------------------------------------------
(* The pada of calculateNakshatra (checked under SpecLimb) *)

\* C14: for every Moon longitude in [0, 360) the pada is
\* floor((moon mod 13 deg 20') / 3 deg 20') + 1, lies in 1..4, and agrees with
\* the nakshatra index: (index - 1) * 4 + pada = floor(moon / 3 deg 20') + 1.
C14_PadaOfMoon ==
    pc = "nakshatra" =>
        LET moon == getMoonLongitude(request.julianDay)
            padaSpan == NAKSHATRA_SPAN \div 4
        IN  /\ response.pada = ((moon % NAKSHATRA_SPAN) \div padaSpan) + 1
            /\ response.pada \in 1..4
            /\ (response.index - 1) * 4 + response.pada = (moon \div padaSpan) + 1

----------------------------------------------------------------------------
(* The crossing solver on its own, with every angle function over a short   *)
(* bracket: the target is 0 and the angle at each instant is 10 degrees     *)
(* short of it, within the tolerance of it, just past the tolerance or 10   *)
(* degrees past it, in any arrangement                                      *)

MaxBracket == 4
AngleSamples == {Deg(350), Circle - 100, 2 * Tolerance001, Deg(10)}

InitSolver ==
    /\ \E getAngle \in [0..MaxBracket -> AngleSamples] :
          request = [startJD |-> 0, endJD |-> MaxBracket, targetAngle |-> 0,
                     getAngle |-> getAngle, tolerance |-> Tolerance001]
    /\ eph = NoSky
    /\ pc = "solver:loop"
    /\ response = Null
    /\ trace = LoopStart(request.startJD, request.endJD)
    /\ process = ProcessStarted

\* one iteration of the for loop, or the return after it
Iterate ==
    /\ pc = "solver:loop"
    /\ \E r \in {LoopStep(trace, request.targetAngle, "request.getAngle",
                          request.tolerance)} :
          IF "returned" \in DOMAIN r
          THEN /\ pc' = "solver:returned"
               /\ response' = [jd |-> r.returned]
               /\ trace' = [trace EXCEPT !.mids = r.mids]
          ELSE IF "threw" \in DOMAIN r
          THEN /\ pc' = "solver:threw"
               /\ response' = r
               /\ UNCHANGED trace
          ELSE /\ pc' = "solver:loop"
               /\ trace' = r
               /\ UNCHANGED response
    /\ UNCHANGED <<process, eph, request>>

NextSolver == Iterate

\* the loop is synchronous code: it runs until it returns
SpecSolver == InitSolver /\ [][NextSolver]_vars /\ WF_vars(NextSolver)

OffTarget(jd) ==
    Abs(WrapDiff(request.getAngle[jd] - request.targetAngle)) >= request.tolerance

SolverBounded ==
    /\ pc \in {"solver:loop", "solver:returned"}
    /\ trace.i <= maxIterations
    /\ Len(trace.mids) <= maxIterations
    /\ pc = "solver:returned" =>
          /\ response.jd >= request.startJD /\ response.jd <= request.endJD
          /\ \A j \in 1..(Len(trace.mids) - 1) : OffTarget(trace.mids[j])
          /\ \/ /\ trace.mids # << >>
                /\ response.jd = trace.mids[Len(trace.mids)]
                /\ ~OffTarget(response.jd)
             \/ /\ Len(trace.mids) = maxIterations
                /\ trace.i = maxIterations
                /\ OffTarget(trace.mids[maxIterations])
                /\ response.jd = (trace.low + trace.high) \div 2
          /\ response.jd = findAngleCrossing(request.startJD, request.endJD,
                                             request.targetAngle, "request.getAngle",
                                             request.tolerance)

\* C15: findAngleCrossing terminates whatever the angle function returns: it
\* runs at most 50 iterations, returns the first midpoint whose signed
\* distance to the target is below the tolerance, and otherwise the midpoint
\* of the final bracket after 50 halvings; what it returns lies in
\* [startJD, endJD], and no error is raised when there is no crossing.
C15_SolverTerminates == []SolverBounded /\ <>(pc = "solver:returned")

\* an angle that stays 10 degrees short of the target: 50 halvings, and the
\* midpoint of the last bracket is returned
C15_Witness ==
    /\ pc = "solver:returned"
    /\ \A jd \in DOMAIN request.getAngle : request.getAngle[jd] = Deg(350)
    /\ Len(trace.mids) = maxIterations
    /\ response.jd = (trace.low + trace.high) \div 2


\* the shortest signed arc from the target to the angle at jd
SignedArc(jd) == WrapDiff(request.getAngle[jd] - request.targetAngle)

\* the angle does not decrease over the bracket, stays within 180 degrees, and
\* passes the target once, between two instants of the bracket
CrossesOnce ==
    /\ \A a, b \in request.startJD..request.endJD : a <= b => SignedArc(a) <= SignedArc(b)
    /\ SignedArc(request.endJD) - SignedArc(request.startJD) < HalfCircle
    /\ SignedArc(request.startJD) < 0
    /\ SignedArc(request.endJD) > 0

\* the instant before the crossing and the instant after it
BeforeCrossing ==
    CHOOSE a \in request.startJD..(request.endJD - 1) :
        SignedArc(a) < 0 /\ SignedArc(a + 1) > 0

\* C16: every iteration of findAngleCrossing keeps the half of the bracket
\* whose ends straddle the target: [low, mid] if the signed arcs at low and at
\* mid have opposite signs, [mid, high] otherwise.  So for an angle that does
\* not decrease, changes by less than 180 degrees over the first bracket and
\* crosses the target once inside it, the crossing lies in [low, high] after
\* every iteration.
C16_BracketKeepsCrossing ==
    pc \in {"solver:loop", "solver:returned"} =>
        /\ \A n \in 2..Len(trace.brackets) :
              LET before == trace.brackets[n - 1]
                  mid == trace.mids[n - 1]
              IN  /\ mid = (before.low + before.high) \div 2
                  /\ trace.brackets[n] =
                        IF \/ SignedArc(before.low) < 0 /\ SignedArc(mid) > 0
                           \/ SignedArc(before.low) > 0 /\ SignedArc(mid) < 0
                        THEN [low |-> before.low, high |-> mid]
                        ELSE [low |-> mid, high |-> before.high]
        /\ CrossesOnce =>
              \A n \in DOMAIN trace.brackets :
                  /\ trace.brackets[n].low <= BeforeCrossing
                  /\ BeforeCrossing + 1 <= trace.brackets[n].high

\* a crossing between the second and the third instant: the bracket has been
\* cut from above and from below and still holds it
C16_Witness ==
    /\ pc = "solver:loop"
    /\ CrossesOnce
    /\ BeforeCrossing = request.startJD + 1
    /\ trace.low = BeforeCrossing
    /\ trace.high = BeforeCrossing + 1
    /\ trace.i >= 3

----------------------------------------------------------------------------
(* Properties of calculateChandrashtama (checked under SpecChandra) *)

\* the rasi that holds the starting degree of the nakshatra of that English name
RasiOfNakshatra(name) ==
    LET i == CHOOSE i \in DOMAIN NAKSHATRAS : NAKSHATRAS[i].name.en = name
    IN  (MicroDeg(NAKSHATRAS[i].startDegree) \div Deg(30)) + 1

EighthFrom(rasi) == ((rasi - 1 + 7) % 12) + 1

\* C17: for every birth nakshatra of the table and every Moon longitude at
\* the reference time, calculateChandrashtama returns a result, with
\* isActive = true, if and only if the Moon's rasi is
\* ((birthMoonRasi - 1 + 7) mod 12) + 1, birthMoonRasi being the rasi that
\* holds the starting degree of the birth nakshatra; otherwise it returns null.
C17_ActiveInEighthRasi ==
    (/\ pc = "chandrashtama"
     /\ \E i \in DOMAIN NAKSHATRAS : NAKSHATRAS[i].name.en = request.birthNakshatra) =>
        /\ response # Null <=>
              MoonRasiAtReference = EighthFrom(RasiOfNakshatra(request.birthNakshatra))
        /\ response # Null => response.isActive = TRUE

\* Revati, of rasi 12, and the Moon one unit before the end of rasi 7
C17_Witness ==
    /\ pc = "chandrashtama"
    /\ request.birthNakshatra = "Revati"
    /\ getMoonLongitude(request.julianDay) = Deg(210) - 1
    /\ response # Null
    /\ response.isActive
    /\ response.currentMoonRasi = "Tula"

\* the search windows of calculateChandrashtama and the degrees it looks for
ChandraWindow == 3 * DaySeconds
RasiEntry == (MoonRasiAtReference - 1) * Deg(30)
RasiExit == (RasiEntry + Deg(30)) % Circle

\* Chandrashtama is active; the Moon's longitude does not step back within 3
\* days of the reference time (it can only where the UTC year changes), and
\* over the 3 days before and the 3 days after it travels at least what
\* separates it from the start and from the end of the rasi
ActiveAndMoonIncreasing ==
    /\ pc = "chandrashtama"
    /\ response # Null
    /\ eph.newYear \notin (trace.refJD - ChandraWindow + 1)..(trace.refJD + ChandraWindow)
    /\ (getMoonLongitude(trace.refJD) - RasiEntry) % Circle
         <= (getMoonLongitude(trace.refJD)
               - getMoonLongitude(trace.refJD - ChandraWindow)) % Circle
    /\ (RasiExit - getMoonLongitude(trace.refJD)) % Circle
         <= (getMoonLongitude(trace.refJD + ChandraWindow)
               - getMoonLongitude(trace.refJD)) % Circle

\* C18: when Chandrashtama is active at refJD and the Moon's longitude
\* increases and enters and leaves the rasi within 3 days of refJD, the start
\* reported is the Moon's entry into the rasi (longitude = the rasi's start
\* degree, found in [refJD - 3, refJD]) and the end reported is its exit
\* (longitude = (start degree + 30) mod 360, found in [refJD, refJD + 3]), so
\* that start <= refJD <= end, also for rasi 12, whose exit wraps to 0; both
\* are met to the solver's 0.01 degree and reported as clock times.
C18_StartAtEntryEndAtExit ==
    ActiveAndMoonIncreasing =>
        /\ trace.refJD - ChandraWindow <= trace.startJD
        /\ trace.startJD <= trace.refJD
        /\ trace.refJD <= trace.endJD
        /\ trace.endJD <= trace.refJD + ChandraWindow
        /\ Abs(WrapDiff(getMoonLongitude(trace.startJD) - RasiEntry)) < Deg(1) \div 100
        /\ Abs(WrapDiff(getMoonLongitude(trace.endJD) - RasiExit)) < Deg(1) \div 100
        /\ response.startTime =
              formatTimeShort(julianDayToDateTime(trace.startJD, request.timezone))
        /\ response.endTime =
              formatTimeShort(julianDayToDateTime(trace.endJD, request.timezone))

\* the Moon in the middle of rasi 12: it leaves where the longitude wraps to 0
C18_Witness ==
    /\ ActiveAndMoonIncreasing
    /\ MoonRasiAtReference = 12
    /\ RasiExit = 0
    /\ getMoonLongitude(trace.refJD) = Deg(345)
    /\ trace.startJD < trace.refJD - DaySeconds
    /\ trace.endJD > trace.refJD + DaySeconds


----------------------------------------------------------------------------
(* Properties of the day-segment tables, under SpecMuhurta.                  *)

\* the weekday of the request date as the tables are keyed: 0 is Sunday, which
\* the date carries as 7
RequestWeekday == IF request.date.weekday = 7 THEN 0 ELSE request.date.weekday

\* the clock readings of segment k of the 8 segments of the day
SegmentReadings(k) == [start |-> EighthClock(k - 1), end |-> EighthClock(k)]

\* Rahu Kalam, Yama Gandam and Kuligai by weekday, Sunday first
InauspiciousSegments ==
    [w \in 0..6 |-> << <<8, 5, 7>>, <<2, 4, 6>>, <<7, 3, 5>>, <<5, 2, 4>>,
                       <<6, 1, 3>>, <<4, 7, 2>>, <<3, 6, 1>> >>[w + 1]]

\* C19: with weekday w of the request date (0 = Sunday), Rahu Kalam, Yama
\* Gandam and Kuligai are segments 8/5/7 on Sunday, 2/4/6 on Monday, 7/3/5 on
\* Tuesday, 5/2/4 on Wednesday, 6/1/3 on Thursday, 4/7/2 on Friday and 3/6/1
\* on Saturday of the 8 segments of the sunrise-to-sunset interval, and the
\* weekday is a key of each of the three tables, so the default of segment 1
\* is never taken.
C19_InauspiciousSegmentsByWeekday ==
    pc = "inauspicious" =>
        LET w == RequestWeekday
            dayOfWeek == getDayOfWeek(request.date, request.timezone)
        IN  /\ response.rahuKalam = SegmentReadings(InauspiciousSegments[w][1])
            /\ response.yamaGandam = SegmentReadings(InauspiciousSegments[w][2])
            /\ response.kuligai = SegmentReadings(InauspiciousSegments[w][3])
            /\ dayOfWeek \in DOMAIN RAHU_KALAM_SEGMENTS
            /\ dayOfWeek \in DOMAIN YAMA_GANDAM_SEGMENTS
            /\ dayOfWeek \in DOMAIN KULIGAI_SEGMENTS

\* a Sunday, which the date carries as weekday 7: Rahu Kalam is the last
\* segment of the day and not the first
C19_Witness ==
    /\ pc = "inauspicious"
    /\ request.date.weekday = 7
    /\ response.rahuKalam = SegmentReadings(8)
    /\ response.rahuKalam # SegmentReadings(1)

\* the good segments of a weekday, in segment order
GoodOn(w) == IF w \in {0, 2, 4, 6} THEN <<1, 2, 5, 6>> ELSE <<3, 4, 7, 8>>

\* C20: gowriNeram has exactly 8 entries in segment order; entry k is good
\* exactly when k is in {1,2,5,6} on Sunday, Tuesday, Thursday and Saturday and
\* in {3,4,7,8} on Monday, Wednesday and Friday, and bad otherwise; its name is
\* entry (k - 1 + w) mod 8 of the 8-name cycle, so the 8 names of a day are
\* pairwise distinct; nallaNeram is the 4 good entries, in the same order, with
\* the same start and end.
C20_GowriGoodAndNames ==
    pc = "auspicious" =>
        LET w == RequestWeekday
            g == response.gowriNeram
            n == response.nallaNeram
            good == GoodOn(w)
        IN  /\ Len(g) = 8
            /\ \A k \in 1..8 :
                  /\ g[k].start = EighthClock(k - 1)
                  /\ g[k].end = EighthClock(k)
                  /\ g[k].type = "good" <=> \E i \in 1..4 : good[i] = k
                  /\ g[k].type \in {"good", "bad"}
                  /\ g[k].name = GOWRI_NAMES[((k - 1 + w) % 8) + 1]
            /\ \A j, k \in 1..8 : j # k => g[j].name # g[k].name
            /\ Len(n) = 4
            /\ \A i \in 1..4 :
                  n[i] = [start |-> g[good[i]].start, end |-> g[good[i]].end]

\* a Monday: the first good period is the third segment, and the names start
\* one place into the cycle and wrap around to its first entry
C20_Witness ==
    /\ pc = "auspicious"
    /\ request.date.weekday = 1
    /\ response.gowriNeram[1].type = "bad"
    /\ response.gowriNeram[1].name = "Chandra"
    /\ response.gowriNeram[8].name = "Uthira"
    /\ response.nallaNeram[1].start = response.gowriNeram[3].start

----------------------------------------------------------------------------
(* Properties of the festival rules, under SpecFestival.                     *)

\* the Tamil month index of the request: the Sun's sign, counted from 1
RequestTamilMonth == (request.sunLongitude \div Deg(30)) + 1

TithiRuleHolds(r) ==
    r.month \in {0, RequestTamilMonth} /\ r.tithi = request.tithi.index

NakshatraRuleHolds(r) ==
    r.month \in {0, RequestTamilMonth} /\ r.nakshatra = request.nakshatra.index

FixedRuleHolds(r) ==
    r.month = request.date.month /\ r.day = request.date.day

\* the rules of the three tables that hold of the request
RulesHolding ==
    {request.tables.tithi[i] : i \in {j \in DOMAIN request.tables.tithi :
                                          TithiRuleHolds(request.tables.tithi[j])}}
    \cup {request.tables.nakshatra[i] : i \in {j \in DOMAIN request.tables.nakshatra :
                                          NakshatraRuleHolds(request.tables.nakshatra[j])}}
    \cup {request.tables.fixed[i] : i \in {j \in DOMAIN request.tables.fixed :
                                          FixedRuleHolds(request.tables.fixed[j])}}

\* C21: a tithi-based rule contributes a festival iff its month is 0 or the
\* Tamil month and its tithi is the day's tithi, whatever its paksha field; a
\* nakshatra-based rule under the same month condition and equality of the
\* nakshatra; a fixed-date rule iff its month and day are those of the request
\* date.  Every rule that holds has its name in the output, every festival of
\* the output is the name and type of a rule that holds, with the shipped
\* tables the output is one festival per rule that holds, and Deepavali is in
\* the output whenever the Tamil month is 7 and the tithi is 30.
C21_RulesContribute ==
    pc = "festivals" =>
        LET out == response
        IN  /\ \A r \in RulesHolding : \E k \in DOMAIN out : out[k].name = r.name
            /\ \A k \in DOMAIN out :
                  \E r \in RulesHolding : out[k] = [name |-> r.name, type |-> r.type]
            /\ request.tables = FestivalTables =>
                  /\ Len(out) = Cardinality(RulesHolding)
                  /\ (RequestTamilMonth = 7 /\ request.tithi.index = 30) =>
                        \E k \in DOMAIN out : out[k].name.en = "Deepavali"

\* a rule that names the dark half contributes on tithi 4, of the bright half
C21_Witness ==
    /\ pc = "festivals"
    /\ request.tithi.index = 4
    /\ RequestTamilMonth = 5
    /\ request.tables.tithi = <<TithiRule("B", 5, 4, "krishna")>>
    /\ request.tables.nakshatra = << >>
    /\ request.tables.fixed = << >>
    /\ response = <<[name |-> [en |-> "B"], type |-> "hindu"]>>

----------------------------------------------------------------------------
(* Specification SpecLagnam: calculateDayLagnams on sequences of what the    *)
(* ascendant computation gives at the steps of the walk: a rasi index that   *)
(* changes at some of the steps, or an error at some of them.                *)

\* steps at which the rasi changes, and steps at which the computation fails
ChangeSamples ==
    SUBSET {1, 2, StepsPerDay \div 2, StepsPerDay - 1, StepsPerDay}
        \cup {1..StepsPerDay}
FailSamples ==
    {{}, {0}, {1}, {StepsPerDay \div 2}, {StepsPerDay \div 2 - 1, StepsPerDay \div 2},
     {StepsPerDay - 1}, 1..StepsPerDay, 0..StepsPerDay}

\* the rasi after c changes from base: the next one each time (onward), or
\* to and fro between base and the next one
RasiAfter(base, c, onward) ==
    IF onward THEN ((base - 1 + c) % 12) + 1
    ELSE IF c % 2 = 0 THEN base ELSE (base % 12) + 1

SampleSequence(base, changes, fails, onward) ==
    [n \in 1..(StepsPerDay + 1) |->
        IF (n - 1) \in fails THEN Threw
        ELSE RasiAfter(base, Cardinality({c \in changes : c <= n - 1}), onward)]

InitLagnam ==
    /\ \E timezone \in Zones, base \in {1, 12}, changes \in ChangeSamples,
          fails \in FailSamples, onward \in BOOLEAN :
            request = [sunriseJD |-> 6 * 3600 + 59 - UtcOffset(timezone),
                       sunsetJD |-> 18 * 3600 - UtcOffset(timezone),
                       timezone |-> timezone,
                       samples |-> SampleSequence(base, changes, fails, onward)]
    /\ eph = NoSky
    /\ pc = "ready"
    /\ response = Null
    /\ trace = Null
    /\ process = ProcessStarted

CalculateDayLagnams ==
    /\ pc = "ready"
    /\ \E walk \in {LagnamWalk(request.samples, request.sunriseJD, request.timezone)} :
          /\ response' = walk.lagnams
          /\ trace' = [spans |-> walk.spans]
    /\ pc' = "lagnams"
    /\ UNCHANGED <<process, eph, request>>

NextLagnam == CalculateDayLagnams

SpecLagnam == InitLagnam /\ [][NextLagnam]_vars

\* the JD of step k, and the steps of the walk at which a rasi index was got
StepJD(k) == request.sunriseJD + 600 * k
Succeeded == {k \in LagnamSamples : request.samples[k + 1] # Threw}

\* the samples with every failed step that follows a step that succeeded
\* given the rasi index of the last step that succeeded before it
RunsCarriedOver ==
    [n \in DOMAIN request.samples |->
        IF request.samples[n] # Threw \/ \A k \in Succeeded : k >= n - 1
        THEN request.samples[n]
        ELSE LET last == CHOOSE k \in Succeeded :
                            k < n - 1 /\ \A j \in Succeeded : j < n - 1 => j <= k
             IN  request.samples[last + 1]]

C28_LagnamIntervalsNonEmpty ==
    pc = "lagnams" =>
        /\ \A i \in DOMAIN trace.spans : trace.spans[i].start < trace.spans[i].end
        /\ Len(response) <= Cardinality(LagnamSamples)

\* the rasi changes at the last step whose JD is not after sunrise + 1 day:
\* the last interval runs from that step to the end of the day
C28_Witness ==
    /\ pc = "lagnams"
    /\ LET final == CHOOSE k \in LagnamSamples : \A j \in LagnamSamples : j <= k
       IN  /\ final > 0
           /\ request.samples[final + 1] # Threw
           /\ request.samples[final] # Threw
           /\ request.samples[final + 1] # request.samples[final]
           /\ response # << >>
           /\ trace.spans[Len(response)].start = StepJD(final)
           /\ trace.spans[Len(response)].end = request.sunriseJD + DaySeconds

----------------------------------------------------------------------------
(* The inauspicious segments against the Gowri table, under SpecMuhurta.     *)

\* C25: on every weekday none of Rahu Kalam, Yama Gandam and Kuligai is a
\* segment that the day's Gowri table tags good: no Nalla Neram period
\* returned for a date is that date's Rahu Kalam, Yama Gandam or Kuligai.
C25_NoGoodPeriodIsInauspicious ==
    pc = "auspicious" =>
        LET inauspicious == calculateInauspiciousPeriods(request.sunriseJD,
                                request.sunsetJD, request.date, request.timezone)
            dayOfWeek == getDayOfWeek(request.date, request.timezone)
            good == GOWRI_GOOD_SEGMENTS[dayOfWeek]
        IN  /\ \A i \in DOMAIN response.nallaNeram :
                  response.nallaNeram[i] \notin {inauspicious.rahuKalam,
                                                 inauspicious.yamaGandam,
                                                 inauspicious.kuligai}
            /\ \A i \in DOMAIN good :
                  good[i] \notin {RAHU_KALAM_SEGMENTS[dayOfWeek],
                                  YAMA_GANDAM_SEGMENTS[dayOfWeek],
                                  KULIGAI_SEGMENTS[dayOfWeek]}

----------------------------------------------------------------------------
(* The longitudes handed to the solver, under SpecLimb.                      *)

\* the instants of the nakshatra search bracket looked at: its first and last
\* second and, when it falls inside, the first second of the new UTC year
BracketInstants ==
    LET lo == trace.refJD
        hi == lo + LimbWindow("nakshatra")
    IN  {lo + 1, hi} \cup ({eph.newYear} \cap ((lo + 1)..hi))

\* C26: the sidereal Sun and Moon longitudes handed to the crossing solver
\* are non-decreasing modulo 360 in JD over every search bracket, a bracket
\* that contains 1 January 00:00 UTC included: from one second to the next
\* neither longitude steps backwards.
C26_SiderealNonDecreasing ==
    pc = "nakshatra" =>
        \A jd \in BracketInstants :
            /\ WrapDiff(getMoonLongitude(jd) - getMoonLongitude(jd - 1)) >= 0
            /\ WrapDiff(getSunLongitude(jd) - getSunLongitude(jd - 1)) >= 0

\* ---------------------------------------------------------------------------
\* The order of sunrise and sunset in a report (SpecDaily)
\* ---------------------------------------------------------------------------

SunsetComputed ==
    /\ "order" \in DOMAIN trace
    /\ \E i \in DOMAIN trace.order : trace.order[i] = "sunset"

\* the instants, in milliseconds, that getTimeSegment formats for a segment
SegmentInstants(segment) ==
    LET sunriseTime == julianDayToDateTime(trace.sunriseJD, request.timezone)
        sunsetTime == julianDayToDateTime(trace.sunsetJD, request.timezone)
        segmentDuration == (sunsetTime.ts - sunriseTime.ts) \div 8
    IN  [start |-> sunriseTime.ts + segmentDuration * (segment - 1),
         end |-> sunriseTime.ts + segmentDuration * segment]

JulianZones == Zones \cup {"America/Phoenix", "Asia/Kathmandu", "Africa/Johannesburg"}

ZoneOffsetSeconds(timezone) ==
    CASE timezone = "America/Phoenix" -> -(7 * 3600)
      [] timezone = "Asia/Kathmandu" -> 5 * 3600 + 45 * 60
      [] timezone = "Africa/Johannesburg" -> 2 * 3600
      [] OTHER -> UtcOffset(timezone)

\* Date.UTC(year, month - 1, day) / 86400000, as Luxon's objToTS computes the
\* local midnight of fromISO
DaysFromCivil(year, month, day) ==
    LET y == IF month <= 2 THEN year - 1 ELSE year
        era == y \div 400
        yoe == y - era * 400
        mp == (month + 9) % 12
        doy == (153 * mp + 2) \div 5 + day - 1
        doe == yoe * 365 + yoe \div 4 - yoe \div 100 + doy
    IN  era * 146097 + doe - 719468

\* the UTC calendar fields of a day, as Luxon's tsToObj reads them from a Date
CivilFromDays(days) ==
    LET z == days + 719468
        era == z \div 146097
        doe == z - era * 146097
        yoe == (doe - doe \div 1460 + doe \div 36524 - doe \div 146096) \div 365
        doy == doe - (365 * yoe + yoe \div 4 - yoe \div 100)
        mp == (5 * doy + 2) \div 153
        month == IF mp < 10 THEN mp + 3 ELSE mp - 9
    IN  [year |-> yoe + era * 400 + (IF month <= 2 THEN 1 ELSE 0),
         month |-> month,
         day |-> doy - (153 * mp + 2) \div 5 + 1]

\* DateTime.fromISO(dateStr, {zone}).toUTC(): the UTC fields of local 00:00:00
LocalMidnightUTC(date, timezone) ==
    LET seconds == DaysFromCivil(date.year, date.month, date.day) * DaySeconds
                      - ZoneOffsetSeconds(timezone)
        civil == CivilFromDays(Floor(seconds, DaySeconds))
        ofDay == seconds % DaySeconds
    IN  [year |-> civil.year, month |-> civil.month, day |-> civil.day,
         hour |-> ofDay \div 3600, minute |-> (ofDay \div 60) % 60,
         second |-> ofDay % 60]

\* a variant in which a double carries any fraction of a day exactly
DayFractionUnitsExact(hour, minute, second) ==
    LET ofDay == hour * 3600 + minute * 60 + second
    IN  [units |-> (ofDay \div 675) * 16777216 + (ofDay % 675) * 24855
                      + ((ofDay % 675) * 91) \div 675,
         lost |-> 0]

\* ... + day + dayFraction: the sum is rounded to the nearest multiple of 2^-31
\* day. With ofDay = 675 q + r seconds, ofDay * 2^31 / 86400 = q * 2^24 +
\* r * 2^24 / 675 and 2^24 = 24855 * 675 + 91; 675 is odd, so there is no tie.
\* lost is what the rounding took from the sum, in 1350ths of a unit.
DayFractionUnits(hour, minute, second) ==
    LET ofDay == hour * 3600 + minute * 60 + second
        q == ofDay \div 675
        r == ofDay % 675
        rounded == (2 * r * 91 + 675) \div 1350
    IN  [units |-> q * 16777216 + r * 24855 + rounded,
         lost |-> 2 * r * 91 - 1350 * rounded]

\* The Meeus reduction of the UTC fields. 365.25 * (y + 4716) is exact in a
\* double; 30.6001 * (m + 1) is nowhere near a whole number for m + 1 in 4..15.
dateToJulianDayMeeus(date, timezone) ==
    LET utc == LocalMidnightUTC(date, timezone)
        dayFraction == DayFractionUnits(utc.hour, utc.minute, utc.second)
        y == IF utc.month <= 2 THEN utc.year - 1 ELSE utc.year
        m == IF utc.month <= 2 THEN utc.month + 12 ELSE utc.month
        a == y \div 100
        b == 2 - a + a \div 4
    IN  [whole |-> (1461 * (y + 4716)) \div 4 + (306001 * (m + 1)) \div 10000
                      + utc.day + b - 1525,
         units |-> dayFraction.units,
         lost |-> dayFraction.lost]

\* floor(units * 86400000 / 2^31) = floor(units * 84375 / 2^21), in limbs of
\* 2^21, 2^11 and 1
MillisOfUnits(units) ==
    LET hi == units \div 2097152
        lo == units % 2097152
        l1 == lo \div 2048
        l0 == lo % 2048
    IN  hi * 84375 + (l1 * 84375 + (l0 * 84375) \div 2048) \div 1024

\* (jd - 2440587.5) * 86400, times 1000 in DateTime.fromSeconds: jd - 2440587.5
\* is exact; the two products are rounded at 2^-22 second and 2^-12
\* millisecond, far below a third of a unit (13 microseconds), which is what
\* the JD of a whole quarter of an hour has lost when it has lost anything.
\* Luxon reads the fields from new Date(ts), which drops the fraction of a
\* millisecond.
julianDayToDateTimeMeeus(jd, timezone) ==
    LET local == MillisOfUnits(jd.units) + ZoneOffsetSeconds(timezone) * 1000
        days == (jd.whole - 2440587) + Floor(local, DaySeconds * 1000)
        ofDay == local % (DaySeconds * 1000)
        civil == CivilFromDays(days)
    IN  [year |-> civil.year, month |-> civil.month, day |-> civil.day,
         hour |-> ofDay \div 3600000, minute |-> (ofDay \div 60000) % 60,
         second |-> (ofDay \div 1000) % 60, millisecond |-> ofDay % 1000]

CivilDate(year, month, day) == [year |-> year, month |-> month, day |-> day]

\* dates from November to February, with the ends of months and years and a
\* leap day among them
JulianDateSamples ==
    {CivilDate(1999, 12, 31), CivilDate(2000, 1, 1), CivilDate(2000, 2, 28),
     CivilDate(2000, 2, 29), CivilDate(2023, 11, 30), CivilDate(2023, 12, 31),
     CivilDate(2024, 1, 14), CivilDate(2024, 2, 29), CivilDate(2025, 1, 31)}

NextDate(date) ==
    CivilFromDays(DaysFromCivil(date.year, date.month, date.day) + 1)

InitJulian ==
    /\ \E date \in JulianDateSamples, timezone \in JulianZones :
          request = [date |-> date, timezone |-> timezone]
    /\ eph = NoSky
    /\ pc = "date"
    /\ response = Null
    /\ trace = Null
    /\ process = ProcessStarted

DateToJulianDay ==
    /\ pc = "date"
    /\ trace' = [jd |-> dateToJulianDayMeeus(request.date, request.timezone),
                 next |-> dateToJulianDayMeeus(NextDate(request.date), request.timezone)]
    /\ pc' = "jd"
    /\ UNCHANGED <<process, eph, request, response>>

JulianDayToDateTime ==
    /\ pc = "jd"
    /\ response' = julianDayToDateTimeMeeus(trace.jd, request.timezone)
    /\ pc' = "dateTime"
    /\ UNCHANGED <<process, eph, request, trace>>

NextJulian == DateToJulianDay \/ JulianDayToDateTime

SpecJulian == InitJulian /\ [][NextJulian]_vars

LocalMidnight(date) ==
    [year |-> date.year, month |-> date.month, day |-> date.day,
     hour |-> 0, minute |-> 0, second |-> 0, millisecond |-> 0]

\* C24: for every civil date and zone offset, julianDayToDateTime(
\* dateToJulianDay(d, zone), zone) is 00:00:00 local time on date d, and the
\* JDs of consecutive dates differ by exactly 1 when the zone offset does not
\* change.
C24_JulianDayRoundTrip ==
    /\ pc \in {"jd", "dateTime"} =>
          /\ trace.next.whole = trace.jd.whole + 1
          /\ trace.next.units = trace.jd.units
    /\ pc = "dateTime" => response = LocalMidnight(request.date)

\* the second half of C24 by itself: the JDs of consecutive dates differ by
\* exactly 1
JulianDaysOfConsecutiveDates ==
    pc \in {"jd", "dateTime"} =>
        /\ trace.next.whole = trace.jd.whole + 1
        /\ trace.next.units = trace.jd.units

\* the round trip where the JD has lost nothing or has been rounded up
RoundTripWhereNotRoundedDown ==
    (pc = "dateTime" /\ trace.jd.lost <= 0) => response = LocalMidnight(request.date)

\* where the JD has been rounded down the round trip ends a millisecond before
\* the date begins
RoundTripWhereRoundedDown ==
    (pc = "dateTime" /\ trace.jd.lost > 0) =>
        /\ <<response.hour, response.minute, response.second, response.millisecond>>
              = <<23, 59, 59, 999>>
        /\ NextDate(CivilDate(response.year, response.month, response.day)) = request.date

\* ---------------------------------------------------------------------------
\* engine/tamilDate.ts: the civil rule, calculateTamilDate (SpecTamilDate)
\* ---------------------------------------------------------------------------

\* a date string as the engine reads it; dayNumber counts from 2024-01-14, the
\* date of the model's JD 0 at 00:00 UTC
TamilDateOfDay(dayNumber) ==
    LET civil == CivilFromDays(DaysFromCivil(2024, 1, 14) + dayNumber)
    IN  [year |-> civil.year, month |-> civil.month, day |-> civil.day,
         wellFormed |-> TRUE, valid |-> TRUE, dayNumber |-> dayNumber]

\* currentDt.minus({ days: i }).toFormat('yyyy-MM-dd')
MinusDays(date, i) ==
    TamilDateOfDay(DaysFromCivil(date.year, date.month, date.day) - i
                      - DaysFromCivil(2024, 1, 14))

\* createDateTime(dateStr, timezone).startOf('day'): local midnight of a valid
\* date, here by its seconds, since the dates reach five weeks back
getStartOfDay(date, timezone) ==
    [seconds |-> date.dayNumber * DaySeconds - UtcOffset(timezone), zone |-> timezone]

toJSDate(dt) == julianDayToDate(dt.seconds)

\* a variant that takes the sign at sunrise whatever happens in the day
getEffectiveMonthIndexAtSunrise(date, location) ==
    LET startOfDayDt == getStartOfDay(date, location.timezone)
        jd_start == dateToJulianDayOfDate(toJSDate(startOfDayDt))
        jd_sunrise == calculateSunrise(jd_start, location.latitude, location.longitude)
        sun_rise == getSunLongitude(jd_sunrise)
    IN  Floor(sun_rise, RASI_SPAN) % 12

getEffectiveMonthIndex(date, location) ==
    LET startOfDayDt == getStartOfDay(date, location.timezone)
        jd_start == dateToJulianDayOfDate(toJSDate(startOfDayDt))
        jd_sunrise == calculateSunrise(jd_start, location.latitude, location.longitude)
        jd_sunset == calculateSunset(jd_start, location.latitude, location.longitude)
        sun_rise == getSunLongitude(jd_sunrise)
        sun_set == getSunLongitude(jd_sunset)
        sign_rise == Floor(sun_rise, RASI_SPAN)
        sign_set == Floor(sun_set, RASI_SPAN)
    IN  IF sign_rise # sign_set
        THEN sign_set % 12
        ELSE sign_rise % 12

MaxSearchDays == 35

\* for (let i = 1; i <= 35; i++): the first i whose date has another month, or
\* the dayCount the loop started with
RECURSIVE TamilDaySearch(_, _, _, _)
TamilDaySearch(i, currentMonthIndex, date, location) ==
    IF i > MaxSearchDays
    THEN 1
    ELSE IF getEffectiveMonthIndex(MinusDays(date, i), location) # currentMonthIndex
         THEN i
         ELSE TamilDaySearch(i + 1, currentMonthIndex, date, location)

calculateTamilDate(date, location) ==
    LET currentMonthIndex == getEffectiveMonthIndex(date, location)
        dayCount == TamilDaySearch(1, currentMonthIndex, date, location)
    IN  [monthIndex |-> currentMonthIndex, day |-> dayCount,
         gregorianDate |-> <<date.year, date.month, date.day>>]

\* local clock times at which the Sun enters Makara, on 14 January 2024 or in
\* the night after it: at sunrise, a second later, at noon, at sunset, a second
\* later, at three the next morning
SankrantiClocks ==
    {6 * 3600, 6 * 3600 + 1, 12 * 3600, 18 * 3600 + 61, 18 * 3600 + 62, 27 * 3600}

\* the dates asked about, as days before and after 14 January 2024
QueryDaysBefore == 2
LastQueryDay == 32

\* The Sun is at 270 degrees sidereal at the Sankranti and moves 0.98 or 1.01
\* degree a day; 1 January 2024 00:00 UTC, where the ayanamsa steps, is 13 days
\* before JD 0. Sunrise is at 06:00 and sunset at 18:01:01 local time of every
\* date, or the Sun does not cross the horizon at all.
InitTamilDate ==
    /\ \E timezone \in Zones, clock \in SankrantiClocks, rises \in BOOLEAN,
          dayNumber \in (-QueryDaysBefore)..LastQueryDay, sunMotion \in {MinSunMotion, MaxSunMotion} :
          /\ request = [date |-> TamilDateOfDay(dayNumber),
                        location |-> [latitude |-> IF rises THEN 13 ELSE 78,
                                      longitude |-> 80, timezone |-> timezone]]
          /\ eph = [at |-> clock - UtcOffset(timezone),
                    sunTrop |-> (Deg(270) + getAyanamsa(2024)) % Circle,
                    moonTrop |-> 0,
                    sunMotion |-> sunMotion,
                    moonMotion |-> MinMoonMotion,
                    year |-> 2023,
                    newYear |-> -(13 * DaySeconds),
                    times |-> IF rises
                              THEN [sunrise |-> ADate(6 * 3600 - UtcOffset(timezone)),
                                    sunset |-> ADate(18 * 3600 + 61 - UtcOffset(timezone)),
                                    utcDay |-> Floor(-UtcOffset(timezone), DaySeconds)]
                              ELSE [sunrise |-> InvalidDate, sunset |-> InvalidDate,
                                    utcDay |-> Floor(-UtcOffset(timezone), DaySeconds)]]
    /\ pc = "ready"
    /\ response = Null
    /\ trace = Null
    /\ process = ProcessStarted

CalculateTamilDate ==
    /\ pc = "ready"
    /\ response' = calculateTamilDate(request.date, request.location)
    /\ trace' = [next |-> calculateTamilDate(MinusDays(request.date, -1), request.location)]
    /\ pc' = "tamilDate"
    /\ UNCHANGED <<process, eph, request>>

NextTamilDate == CalculateTamilDate

SpecTamilDate == InitTamilDate /\ [][NextTamilDate]_vars

\* the sunrise and the sunset of the date i days before the one asked about
SunriseOf(i) ==
    calculateSunrise(getStartOfDay(MinusDays(request.date, i),
                                   request.location.timezone).seconds,
                     request.location.latitude, request.location.longitude)

SunsetOf(i) ==
    calculateSunset(getStartOfDay(MinusDays(request.date, i),
                                  request.location.timezone).seconds,
                    request.location.latitude, request.location.longitude)

SunSign(jd) == Floor(getSunLongitude(jd), RASI_SPAN)

\* the effective month by the rule: the sign at sunset when the Sun changes
\* sign between sunrise and sunset, the sign at sunrise otherwise
EffectiveMonth(i) ==
    IF SunSign(SunriseOf(i)) # SunSign(SunsetOf(i))
    THEN SunSign(SunsetOf(i))
    ELSE SunSign(SunriseOf(i))

\* the number of consecutive dates, ending at the one asked about, that have
\* its effective month
ConsecutiveDates ==
    CHOOSE n \in 1..(MaxSearchDays + 1) :
        /\ \A i \in 0..(n - 1) : EffectiveMonth(i) = EffectiveMonth(0)
        /\ n <= MaxSearchDays => EffectiveMonth(n) # EffectiveMonth(0)

\* C23: the effective month of a date is the Sun's sign at its sunset when the
\* Sun changes sign between its sunrise and sunset, and the sign at sunrise
\* otherwise; the day number is the number of consecutive dates ending at it
\* that have its effective month. A date on which Sankranti falls between
\* sunrise and sunset is day 1 of the new month, after a Sankranti between
\* sunset and the next sunrise the next date is day 1, and from one date to the
\* next the day number increases by exactly 1 or resets to 1.
C23_CivilSankrantiRule ==
    pc = "tamilDate" =>
        /\ response.monthIndex = EffectiveMonth(0)
        /\ response.day = ConsecutiveDates
        /\ (SunriseOf(0) < eph.at /\ eph.at <= SunsetOf(0)) =>
              (response.day = 1 /\ response.monthIndex = 9)
        /\ (SunsetOf(0) < eph.at /\ eph.at <= SunriseOf(-1)) =>
              (trace.next.day = 1 /\ trace.next.monthIndex = 9 /\ response.monthIndex = 8)
        /\ trace.next.day = response.day + 1 \/ trace.next.day = 1

\* Sankranti at noon of 14 January: that date is day 1 of Thai and the next is
\* day 2
C23_Witness ==
    /\ pc = "tamilDate"
    /\ request.date.dayNumber = 0
    /\ SunriseOf(0) < eph.at /\ eph.at <= SunsetOf(0)
    /\ response = [monthIndex |-> 9, day |-> 1, gregorianDate |-> <<2024, 1, 14>>]
    /\ trace.next.day = 2

\* the last date of Thai and the first of Maasi
MonthRunsOut ==
    /\ pc = "tamilDate"
    /\ response.monthIndex = 9 /\ response.day >= 29
    /\ trace.next = [monthIndex |-> 10, day |-> 1,
                     gregorianDate |-> trace.next.gregorianDate]

\* ---------------------------------------------------------------------------
\* client/src/hooks: usePanchangam (SpecHook)
\* ---------------------------------------------------------------------------

\* The hook's state (data, loading, error) is in response; request.calls is the
\* list of the calls made so far, in the order they were issued, each with the
\* reply of the server while it is pending and the way it settled afterwards.
\* A call's code up to its await runs when it is issued, and the rest when the
\* promise settles.

MaxCalls == 3

\* what the server may answer to POST /api/panchangam: a report, or an error
\* status whose body carries a message, only an error, or no JSON at all
Replies(call) ==
    {[ok |-> TRUE, body |-> [report |-> call]],
     [ok |-> FALSE, body |-> [message |-> "Invalid request", error |-> "Validation error"]],
     [ok |-> FALSE, body |-> [error |-> "Calculation failed"]],
     [ok |-> FALSE, body |-> [unparsable |-> TRUE]]}

\* errorData.message || errorData.error || 'Failed to fetch Panchangam'
fetchPanchangam(reply) ==
    IF ~reply.ok
    THEN LET errorData == IF "unparsable" \in DOMAIN reply.body
                          THEN [empty |-> TRUE] ELSE reply.body
         IN  [threw |-> IF "message" \in DOMAIN errorData THEN errorData.message
                        ELSE IF "error" \in DOMAIN errorData THEN errorData.error
                        ELSE "Failed to fetch Panchangam"]
    ELSE [value |-> reply.body]

\* the same for the CSV download: a Blob or an ApiError
downloadPanchangamCsv(reply) ==
    IF ~reply.ok
    THEN [threw |-> "Failed to download CSV"]
    ELSE [value |-> [blob |-> TRUE]]

\* useState(null), useState(false), useState(null)
InitHook ==
    /\ request = [calls |-> << >>]
    /\ response = [data |-> Null, loading |-> FALSE, error |-> Null]
    /\ eph = NoSky
    /\ pc = "mounted"
    /\ trace = Null
    /\ process = ProcessStarted

Pending(i) == request.calls[i].state = "pending"

\* calculate, up to the await: setLoading(true); setError(null)
Calculate ==
    /\ Len(request.calls) < MaxCalls
    /\ \E reply \in Replies(Len(request.calls) + 1) :
          request' = [calls |-> Append(request.calls,
                        [kind |-> "calculate", state |-> "pending", reply |-> reply])]
    /\ response' = [response EXCEPT !.loading = TRUE, !.error = Null]
    /\ UNCHANGED <<process, eph, pc, trace>>

\* downloadCsv, up to the await: setLoading(true); setError(null)
DownloadCsv ==
    /\ Len(request.calls) < MaxCalls
    /\ \E reply \in Replies(Len(request.calls) + 1) :
          request' = [calls |-> Append(request.calls,
                        [kind |-> "downloadCsv", state |-> "pending", reply |-> reply])]
    /\ response' = [response EXCEPT !.loading = TRUE, !.error = Null]
    /\ UNCHANGED <<process, eph, pc, trace>>

\* calculate, from the await on: setData(result), or setError(message) and
\* setData(null); then setLoading(false)
CalculateSettles(i) ==
    /\ i \in DOMAIN request.calls
    /\ Pending(i) /\ request.calls[i].kind = "calculate"
    /\ \E result \in {fetchPanchangam(request.calls[i].reply)} :
          /\ request' = [request EXCEPT !.calls[i].state =
                            IF "threw" \in DOMAIN result THEN "rejected" ELSE "fulfilled"]
          /\ response' =
                IF "threw" \in DOMAIN result
                THEN [data |-> Null, loading |-> FALSE, error |-> [message |-> result.threw]]
                ELSE [response EXCEPT !.data = result.value, !.loading = FALSE]
    /\ UNCHANGED <<process, eph, pc, trace>>

\* downloadCsv, from the await on: setError(message) when it failed; then
\* setLoading(false)
DownloadCsvSettles(i) ==
    /\ i \in DOMAIN request.calls
    /\ Pending(i) /\ request.calls[i].kind = "downloadCsv"
    /\ \E result \in {downloadPanchangamCsv(request.calls[i].reply)} :
          /\ request' = [request EXCEPT !.calls[i].state =
                            IF "threw" \in DOMAIN result THEN "rejected" ELSE "fulfilled"]
          /\ response' =
                IF "threw" \in DOMAIN result
                THEN [response EXCEPT !.error = [message |-> result.threw],
                                      !.loading = FALSE]
                ELSE [response EXCEPT !.loading = FALSE]
    /\ UNCHANGED <<process, eph, pc, trace>>

Settles ==
    \E i \in 1..MaxCalls : CalculateSettles(i) \/ DownloadCsvSettles(i)

NextHook == Calculate \/ DownloadCsv \/ Settles

SpecHook == InitHook /\ [][NextHook]_vars

\* every fetch is answered or fails: a pending promise settles in the end
FairSpecHook == SpecHook /\ WF_vars(Settles)

InFlight == {i \in DOMAIN request.calls : Pending(i)}

OnlyCalculateCalls == \A i \in DOMAIN request.calls : request.calls[i].kind = "calculate"

\* what the call issued last has to show once it has settled
ShownBy(call) ==
    LET result == fetchPanchangam(call.reply)
    IN  IF "threw" \in DOMAIN result
        THEN [data |-> Null, error |-> [message |-> result.threw]]
        ELSE [data |-> result.value, error |-> Null]

\* C29: when several calculate calls overlap and their responses arrive in any
\* order, after all of them have settled the data and error shown are those of
\* the most recently issued call, and data and error are never both non-null.
C29_LatestCallWins ==
    (request.calls # << >> /\ OnlyCalculateCalls) =>
        /\ ~(response.data # Null /\ response.error # Null)
        /\ InFlight = {} =>
              LET shown == ShownBy(request.calls[Len(request.calls)])
              IN  response.data = shown.data /\ response.error = shown.error

\* C30: loading is true whenever at least one calculate or downloadCsv request
\* is in flight and false whenever none is, for every interleaving of starts,
\* successes and failures of overlapping requests.
C30_LoadingIffInFlight ==
    response.loading <=> InFlight # {}

\* the last part of C30 by itself: once all requests have settled, loading is
\* false in the end
LoadingFalseOnceSettled ==
    (request.calls # << >> /\ InFlight = {}) ~> ~response.loading

=============================================================================
